---- MODULE Spec2Model ----
(***************************************************************************)
(* A model of imapautofiler: the processing pipeline (app.process_rules),  *)
(* the rule engine (rules.py), the action dispatcher (actions.py) and the  *)
(* two mailbox clients (client.IMAPClient, client.MaildirClient).          *)
(*                                                                         *)
(* Text is modelled as a tuple of one-character strings, a message as an   *)
(* ordered tuple of <<header name, header value>> pairs and a mailbox name *)
(* as a tuple of text parts.  A mailbox on the backend is a tuple of       *)
(* stored messages [id, msg, flags]; the backend is the function boxes     *)
(* whose domain is the set of mailboxes that exist.                        *)
(***************************************************************************)
EXTENDS Integers, Sequences, FiniteSets, TLC

\* ------------------------------------------------------------------------
\* Bounds of the model
\* ------------------------------------------------------------------------
MaxMsgs == 2
MaxRules == 2
MaxFaults == 1

\* ------------------------------------------------------------------------
\* Text helpers
\* ------------------------------------------------------------------------
LowerChar(c) ==
    CASE c = "A" -> "a"
      [] c = "B" -> "b"
      [] c = "S" -> "s"
      [] OTHER -> c

Lower(s) == [i \in 1..Len(s) |-> LowerChar(s[i])]

\* Python's "sub in s" on strings
Contains(sub, s) ==
    \E i \in 0..(Len(s) - Len(sub)) : SubSeq(s, i + 1, i + Len(sub)) = sub

\* re: a pattern is a tuple of tokens: a literal character, "\." for a
\* dot, "." for any character, "(" and ")" around a group (groups do not
\* nest), "^", "$", the optional "<?" and ">?", the runs "[\w+-]+" and
\* "[^.]+" and the rest ".*".  The patterns are written so that no token has
\* to give back what it took.
WordRun == "[\\w+-]+"
NonDotRun == "[^.]+"
Opens(p, k) == Cardinality({i \in 1..k : p[i] = "("})
Closes(p, k) == Cardinality({i \in 1..k : p[i] = ")"})

\* re.compile raises on parentheses that do not pair up
re_compile_ok(p) ==
    /\ \A k \in 1..Len(p) : Opens(p, k) >= Closes(p, k)
    /\ Opens(p, Len(p)) = Closes(p, Len(p))

\* Pattern.groups
re_groups(p) == Opens(p, Len(p))

\* the characters of the class of a run
InClass(t, c) ==
    IF t = WordRun THEN c \notin {"@", ".", " ", "<", ">", ","} ELSE c # "."

\* the offset after the longest run of the class from offset o on
RunEnd(t, s, o) ==
    LET ends == {e \in o..Len(s) : \A k \in (o + 1)..e : InClass(t, s[k])}
    IN CHOOSE e \in ends : \A f \in ends : f <= e

\* the offset after token t matched at offset o, -1 when it does not match
re_step(t, s, o) ==
    CASE t \in {"(", ")"} -> o
      [] t = "^" -> IF o = 0 THEN o ELSE -1
      [] t = "$" -> IF o = Len(s) THEN o ELSE -1
      [] t \in {WordRun, NonDotRun} -> IF RunEnd(t, s, o) = o THEN -1 ELSE RunEnd(t, s, o)
      [] t = ".*" -> Len(s)
      [] t \in {"<?", ">?"} ->
           IF o < Len(s) /\ s[o + 1] = (IF t = "<?" THEN "<" ELSE ">") THEN o + 1 ELSE o
      [] t = "." -> IF o < Len(s) THEN o + 1 ELSE -1
      [] OTHER ->
           IF o < Len(s) /\ s[o + 1] = (IF t = "\\." THEN "." ELSE t) THEN o + 1 ELSE -1

\* the offsets after each token of p when p is matched from offset at on
re_offsets(p, s, at) ==
    LET off[k \in 0..Len(p)] ==
           IF k = 0 THEN at
           ELSE IF off[k - 1] = -1 THEN -1
           ELSE re_step(p[k], s, off[k - 1])
    IN off

re_match_at(p, s, at) == re_offsets(p, s, at)[Len(p)] # -1

\* Pattern.search: the offset of the leftmost match, -1 for None
re_search(p, s) ==
    LET hits == {at \in 0..Len(s) : re_match_at(p, s, at)}
    IN IF hits = {} THEN -1 ELSE CHOOSE at \in hits : \A o \in hits : at <= o

\* Match.groups()[g - 1] of the match of p in s at offset at
re_group(p, s, at, g) ==
    LET open == CHOOSE j \in 1..Len(p) : p[j] = "(" /\ Opens(p, j) = g
        close == CHOOSE j \in 1..Len(p) : p[j] = ")" /\ Closes(p, j) = g
        off == re_offsets(p, s, at)
    IN SubSeq(s, off[open] + 1, off[close])

\* header names compare case-insensitively
LowerName(n) ==
    CASE n = "Subject" -> "subject"
      [] n = "Date" -> "date"
      [] n = "To" -> "to"
      [] n = "List-Id" -> "list-id"
      [] OTHER -> n

\* ------------------------------------------------------------------------
\* Message model
\* ------------------------------------------------------------------------
\* message[name] / i18n.get_header_value: the value of the first header with
\* that name (case-insensitive), the empty string when there is none
get_header_value(message, name) ==
    LET idx == {i \in 1..Len(message) : LowerName(message[i][1]) = LowerName(name)}
    IN IF idx = {} THEN <<>>
       ELSE message[CHOOSE i \in idx : \A j \in idx : i <= j][2]

\* "name in message"
HasHeader(message, name) ==
    \E i \in 1..Len(message) : LowerName(message[i][1]) = LowerName(name)

\* email.utils.parsedate_to_datetime: the dates that parse are the ones that
\* consist of a year; everything else (the empty string too) raises
\* (a date is written <<year>> or <<year, day, hour, zone>>: the day of the
\* year, the hour of the day and the zone as the header gives them)
Years == {"2023"}
DateParses(v) == Len(v) \in {1, 4} /\ v[1] \in Years
DateYear(v) == v[1]

\* the zones of the dates: none and -0000 give a datetime without tzinfo
ZoneOffset(z) ==
    CASE z = "+0200" -> 2
      [] z = "-0500" -> -5
      [] OTHER -> 0
DateIsNaive(v) == Len(v) = 1 \/ v[4] \in {"", "-0000"}

\* the hours from the start of the year to the instant of the date, a date
\* without tzinfo being taken as UTC
DateInstant(v) == IF Len(v) = 1 THEN 0 ELSE v[2] * 24 + v[3] - ZoneOffset(v[4])

\* the messages the initial mailboxes are filled from
MsgSpam == << <<"Subject", <<"S", "a", "b">> >>, <<"Date", <<"2023">> >> >>
MsgSpamNoDate == << <<"subject", <<"s", "A", "b">> >> >>
MsgPlain == << <<"Subject", <<"b", "a">> >>, <<"Date", <<"2023">> >> >>
Messages == {MsgSpam, MsgSpamNoDate, MsgPlain}

\* ------------------------------------------------------------------------
\* Rule engine (rules.py)
\* ------------------------------------------------------------------------
\* A rule description is [kind, name, matchers, rules, action]; a header
\* matcher description is [name, op, pattern].
RuleKinds == {"or", "and", "recipient", "headers", "header-exists", "is-mailing-list",
              "time-limit"}

HeaderExactValue_check(m, message) ==
    Lower(m.pattern) = Lower(get_header_value(message, m.name))

HeaderSubString_check(m, message) ==
    Contains(Lower(m.pattern), Lower(get_header_value(message, m.name)))

HeaderRegex_check(m, message) ==
    re_search(m.pattern, get_header_value(message, m.name)) >= 0

Matcher_check(m, message) ==
    CASE m.op = "substring" -> HeaderSubString_check(m, message)
      [] m.op = "regex" -> HeaderRegex_check(m, message)
      [] OTHER -> HeaderExactValue_check(m, message)

Headers_check(rule, message) ==
    IF rule.matchers = <<>> THEN FALSE
    ELSE \A i \in 1..Len(rule.matchers) : Matcher_check(rule.matchers[i], message)

HeaderExists_check(rule, message) == HasHeader(message, rule.name)

\* the headers sub-rule Recipient.__init__ builds for one header: a copy of
\* the recipient matcher with its name set, and no action
RecipientHeader(rule, header) ==
    [kind |-> "headers", name |-> "",
     matchers |-> <<[rule.matchers[1] EXCEPT !.name = header]>>, rules |-> <<>>]

\* a recipient rule that looks at the to header only
Recipient_init_ToOnly(rule) ==
    [rule EXCEPT !.rules = <<RecipientHeader(rule, "to")>>]

\* Recipient.__init__: the description is rewritten in place, its or list
\* replaced by the headers rules on to and on cc
Recipient_init(rule) ==
    [rule EXCEPT !.rules = <<RecipientHeader(rule, "to"), RecipientHeader(rule, "cc")>>]

\* the current time, in hours from the start of the year
Now == 96

\* TimeLimit.check: the value it returns
TimeLimit_check(rule, message) ==
    LET v == get_header_value(message, "date")
    IN IF ~DateParses(v) THEN "False"
       ELSE IF rule.age = 0 THEN "None"
       ELSE IF DateInstant(v) <= Now - rule.age * 24 THEN "True"
       ELSE "0"

\* the truth value of what a check returned
Truthy(v) == v = "True"

RECURSIVE Rule_check(_, _)
RECURSIVE any_check(_, _, _)
RECURSIVE all_check(_, _, _)

\* any() over a list built first: every child is checked
any_check_List(rs, message, i) ==
    [val |-> \E k \in i..Len(rs) : Rule_check(rs[k], message),
     calls |-> [k \in 1..(Len(rs) - i + 1) |-> k + i - 1]]

\* any(r.check(message) for r in rs) from child i on: the children whose
\* check is called, in order, and the value
any_check(rs, message, i) ==
    IF i > Len(rs) THEN [val |-> FALSE, calls |-> <<>>]
    ELSE IF Rule_check(rs[i], message) THEN [val |-> TRUE, calls |-> <<i>>]
    ELSE LET rest == any_check(rs, message, i + 1)
         IN [val |-> rest.val, calls |-> <<i>> \o rest.calls]

\* all(r.check(message) for r in rs) from child i on
all_check(rs, message, i) ==
    IF i > Len(rs) THEN [val |-> TRUE, calls |-> <<>>]
    ELSE IF ~Rule_check(rs[i], message) THEN [val |-> FALSE, calls |-> <<i>>]
    ELSE LET rest == all_check(rs, message, i + 1)
         IN [val |-> rest.val, calls |-> <<i>> \o rest.calls]

\* And.check without the test for an empty list of sub-rules
And_check_NoGuard(rule, message) == all_check(rule.rules, message, 1)

\* Or.check and And.check: no sub-rules, no match
Or_check(rule, message) ==
    IF rule.rules = <<>> THEN [val |-> FALSE, calls |-> <<>>]
    ELSE any_check(rule.rules, message, 1)

And_check(rule, message) ==
    IF rule.rules = <<>> THEN [val |-> FALSE, calls |-> <<>>]
    ELSE all_check(rule.rules, message, 1)

\* Recipient inherits Or.check, over the sub-rules its constructor built
Recipient_check(rule, message) == Or_check(Recipient_init(rule), message)

Rule_check(rule, message) ==
    CASE rule.kind = "or" -> Or_check(rule, message).val
      [] rule.kind = "and" -> And_check(rule, message).val
      [] rule.kind = "recipient" -> Recipient_check(rule, message).val
      [] rule.kind = "time-limit" -> Truthy(TimeLimit_check(rule, message))
      [] rule.kind = "headers" -> Headers_check(rule, message)
      [] rule.kind = "header-exists" -> HeaderExists_check(rule, message)
      [] rule.kind = "is-mailing-list" ->
           HeaderExists_check([rule EXCEPT !.name =
                                  IF rule.name = "" THEN "list-id" ELSE rule.name],
                              message)
      [] OTHER -> FALSE

\* rules.factory with the constructors: the description must carry a known
\* rule key, every header matcher a known test, and a regex must compile
RECURSIVE Rule_factory_ok(_)
Rule_factory_ok(rule) ==
    /\ rule.kind \in RuleKinds
    /\ \A i \in 1..Len(rule.rules) : Rule_factory_ok(rule.rules[i])
    /\ \A i \in 1..Len(rule.matchers) :
          /\ rule.matchers[i].op \in {"substring", "regex", "value"}
          /\ rule.matchers[i].op = "regex" => re_compile_ok(rule.matchers[i].pattern)

\* get_action that prefers the action of the first sub-rule
Rule_get_action_Nested(rule) ==
    IF rule.rules # <<>> THEN rule.rules[1].action ELSE rule.action

Rule_get_action(rule) == rule.action

\* ------------------------------------------------------------------------
\* Action dispatcher (actions.py)
\* ------------------------------------------------------------------------
\* An action description is [name, dest, base]: dest is the dest-mailbox
\* template and base the dest-mailbox-base, each a tuple of parts, the empty
\* tuple when the key is absent.  A part is literal text or the placeholder
\* DateYearPart.  The description of a sort action may carry header (the
\* header), regex (dest-mailbox-regex) and group (dest-mailbox-regex-group)
\* too.
DateYearPart == "{{ date.year }}"
NoName == <<>>

\* dict.get(key, default)
Get(data, key, default) == IF key \in DOMAIN data THEN data[key] ELSE default

SortFamily == {"sort", "sort-mailing-list", "sort-by-year"}
MoveFamily == {"move", "trash"} \cup SortFamily
ActionNames == MoveFamily \cup {"delete", "flag", "unflag", "mark_read", "mark_unread"}

\* _render: the date header is parsed whatever the template holds
render(template_text, message) ==
    LET d == get_header_value(message, "date")
    IN IF ~DateParses(d) THEN [ok |-> FALSE, val |-> NoName]
       ELSE [ok |-> TRUE,
             val |-> [i \in 1..Len(template_text) |->
                        IF template_text[i] = DateYearPart THEN DateYear(d)
                        ELSE template_text[i]]]

\* a factory whose constructors accept every description of a known action
Action_factory_NoChecks(action_data, config) ==
    [ok |-> action_data.name \in ActionNames, name |-> action_data.name,
     data |-> action_data, dest_mailbox |-> action_data.dest]

\* a factory that builds an action object for any name
Action_factory_AcceptsAny(action_data, config) ==
    [ok |-> TRUE, name |-> action_data.name, data |-> action_data, dest_mailbox |-> NoName]

\* Sort._default_header and Sort._default_regex with their overrides
Sort_default_header(name) ==
    CASE name = "sort-mailing-list" -> "list-id"
      [] name = "sort-by-year" -> "date"
      [] OTHER -> "to"

Sort_default_regex(name) ==
    IF name = "sort-mailing-list"
    THEN <<"<?", "(", NonDotRun, ")", "\\.", ".*", ">?">>
    ELSE <<"(", WordRun, ")", "@">>

\* the attributes Sort.__init__ sets
Sort_header(data) == Get(data, "header", Sort_default_header(data.name))
Sort_regex(data) == Get(data, "regex", Sort_default_regex(data.name))
Sort_group(data) == Get(data, "group", 0)

\* Sort.__init__ returns: a base is given, the regex compiles and has a
\* group, and with several groups the description says which one to use
Sort_init_ok(data) ==
    /\ data.base # NoName
    /\ re_compile_ok(Sort_regex(data))
    /\ re_groups(Sort_regex(data)) >= 1
    /\ re_groups(Sort_regex(data)) > 1 => "group" \in DOMAIN data

\* a factory whose Trash prefers the global trash-mailbox to the
\* dest-mailbox of the action
Action_factory_GlobalFirst(action_data, config) ==
    LET trash_dest == IF config.trash_mailbox # NoName THEN config.trash_mailbox
                      ELSE action_data.dest
    IN CASE action_data.name \notin ActionNames ->
              [ok |-> FALSE, name |-> action_data.name, data |-> action_data,
               dest_mailbox |-> NoName]
         [] action_data.name = "trash" ->
              [ok |-> trash_dest # NoName, name |-> "trash", data |-> action_data,
               dest_mailbox |-> trash_dest]
         [] action_data.name \in SortFamily ->
              [ok |-> Sort_init_ok(action_data), name |-> action_data.name,
               data |-> action_data, dest_mailbox |-> NoName]
         [] OTHER ->
              [ok |-> TRUE, name |-> action_data.name, data |-> action_data,
               dest_mailbox |-> NoName]

\* actions.factory with the constructors of the variants: the action object,
\* or ok = FALSE when the lookup or the constructor raises
Action_factory(action_data, config) ==
    LET trash_dest == IF action_data.dest # NoName THEN action_data.dest
                      ELSE config.trash_mailbox
    IN CASE action_data.name \notin ActionNames ->
              [ok |-> FALSE, name |-> action_data.name, data |-> action_data,
               dest_mailbox |-> NoName]
         [] action_data.name = "trash" ->
              [ok |-> trash_dest # NoName, name |-> "trash", data |-> action_data,
               dest_mailbox |-> trash_dest]
         [] action_data.name \in SortFamily ->
              [ok |-> Sort_init_ok(action_data), name |-> action_data.name,
               data |-> action_data, dest_mailbox |-> NoName]
         [] OTHER ->
              [ok |-> TRUE, name |-> action_data.name, data |-> action_data,
               dest_mailbox |-> NoName]

\* a year bucket that fails, as the generic sort does, on a date that does
\* not parse
SortByYear_get_dest_mailbox_Strict(act, message) ==
    LET d == get_header_value(message, "date")
    IN [ok |-> DateParses(d),
        val |-> act.data.base \o <<IF DateParses(d) THEN DateYear(d) ELSE "">>]

SortByYear_get_dest_mailbox(act, message) ==
    LET d == get_header_value(message, "date")
    IN [ok |-> TRUE,
        val |-> act.data.base \o <<IF DateParses(d) THEN DateYear(d)
                                   ELSE "unparsable-date">>]

\* Sort._get_dest_mailbox: the rendered base followed by the group of the
\* first match of the regex in the header; no match, a date that
\* _render cannot parse and a group the match does not have all raise
Sort_get_dest_mailbox(act, message) ==
    LET header_value == get_header_value(message, Sort_header(act.data))
        regex == Sort_regex(act.data)
        at == re_search(regex, header_value)
        rendered == render(act.data.base, message)
        group == Sort_group(act.data)
    IN IF at = -1 \/ ~rendered.ok \/ group + 1 > re_groups(regex)
       THEN [ok |-> FALSE, val |-> NoName]
       ELSE [ok |-> TRUE,
             val |-> rendered.val \o re_group(regex, header_value, at, group + 1)]

\* _get_dest_mailbox of the move family
get_dest_mailbox(act, message) ==
    CASE act.name = "move" -> render(act.data.dest, message)
      [] act.name = "trash" -> [ok |-> TRUE, val |-> act.dest_mailbox]
      [] act.name = "sort-by-year" -> SortByYear_get_dest_mailbox(act, message)
      [] act.name \in SortFamily -> Sort_get_dest_mailbox(act, message)
      [] OTHER -> [ok |-> FALSE, val |-> NoName]

\* report() returns normally (TRUE) or raises (FALSE)
Action_report_ok(act, message) ==
    IF act.name \in MoveFamily THEN get_dest_mailbox(act, message).ok
    ELSE TRUE

\* what report() logs and what it returns: every variant ends after its
\* self._log.info(...) call, so it returns None (written <<>>; a returned
\* description d would be <<d>>)
None == <<>>
Description(act, src_mailbox, message_id, message) ==
    [mailbox |-> src_mailbox, id |-> message_id,
     subject |-> get_header_value(message, "subject"),
     dest |-> IF act.name \in MoveFamily THEN get_dest_mailbox(act, message).val
              ELSE NoName]

Action_report(act, src_mailbox, message_id, message) ==
    [ok |-> Action_report_ok(act, message),
     logged |-> Description(act, src_mailbox, message_id, message),
     returned |-> None]

\* ------------------------------------------------------------------------
\* Mailbox clients (client.py), as functions of the backend state
\* ------------------------------------------------------------------------
FLAGGED == "Flagged"
SEEN == "Seen"
DELETED == "Deleted"

HasId(box, id) == \E i \in 1..Len(box) : box[i].id = id
ById(box, id) == box[CHOOSE i \in 1..Len(box) : box[i].id = id]
Ids(box) == [i \in 1..Len(box) |-> box[i].id]

\* a store that is not restricted to the message id given
IMAP_store_AllMessages(b, sel, id, flag, on) ==
    [b EXCEPT ![sel] =
        [i \in 1..Len(@) |->
            [@[i] EXCEPT !.flags = IF on THEN @ \cup {flag} ELSE @ \ {flag}]]]

\* imapclient add_flags / remove_flags on the selected folder
IMAP_store(b, sel, id, flag, on) ==
    [b EXCEPT ![sel] =
        [i \in 1..Len(@) |->
            IF @[i].id = id
            THEN [@[i] EXCEPT !.flags = IF on THEN @ \cup {flag} ELSE @ \ {flag}]
            ELSE @[i]]]

\* imapclient copy: the message of the selected folder is appended to dest
\* under the next UID of dest, with its flags
IMAP_copy(b, u, sel, id, dest) ==
    IF HasId(b[sel], id)
    THEN [boxes |-> [b EXCEPT ![dest] =
                        Append(@, [ById(b[sel], id) EXCEPT !.id = u[dest]])],
          uidnext |-> [u EXCEPT ![dest] = @ + 1]]
    ELSE [boxes |-> b, uidnext |-> u]

\* imapclient expunge: the messages of the selected folder that carry the
\* deletion marker are removed
IMAP_expunge(b, sel) ==
    [b EXCEPT ![sel] = SelectSeq(@, LAMBDA m : DELETED \notin m.flags)]

\* mailbox.Maildir(path, create=True)
Maildir_open(b, u, name) ==
    IF name \in DOMAIN b THEN [boxes |-> b, uidnext |-> u]
    ELSE [boxes |-> b @@ (name :> <<>>), uidnext |-> u @@ (name :> 1)]

\* Maildir.add under a fresh key
Maildir_add(b, u, name, stored) ==
    [boxes |-> [b EXCEPT ![name] = Append(@, [stored EXCEPT !.id = u[name]])],
     uidnext |-> [u EXCEPT ![name] = @ + 1]]

\* Maildir.remove
\* box.remove that leaves the message where it is
Maildir_remove_Keeps(b, name, id) == b

Maildir_remove(b, name, id) ==
    [b EXCEPT ![name] = SelectSeq(@, LAMBDA m : m.id # id)]

\* box[message_id] = message with a flag added or removed
Maildir_set_flag(b, name, id, flag, on) == IMAP_store(b, name, id, flag, on)

\* ------------------------------------------------------------------------
\* The inputs of a run
\* ------------------------------------------------------------------------
INBOX == <<"INBOX">>
Archive == <<"Archive">>
TrashBox == <<"Trash">>

\* the mailboxes a configuration lists, in this order
MailboxOrder == <<INBOX, Archive>>

NoAction == [name |-> "", dest |-> NoName, base |-> NoName]

HeaderRule(matchers, act) ==
    [kind |-> "headers", name |-> "", matchers |-> matchers, rules |-> <<>>,
     action |-> act]

RuleSpamMove ==
    HeaderRule(<< [name |-> "subject", op |-> "substring", pattern |-> <<"s", "a">>] >>,
               [name |-> "move", dest |-> Archive, base |-> NoName])

RuleDatedFlag ==
    [kind |-> "header-exists", name |-> "date", matchers |-> <<>>, rules |-> <<>>,
     action |-> [name |-> "flag", dest |-> NoName, base |-> NoName]]

RulePlainBogus ==
    HeaderRule(<< [name |-> "Subject", op |-> "value", pattern |-> <<"B", "a">>] >>,
               [name |-> "bogus", dest |-> NoName, base |-> NoName])

RuleSet == {RuleSpamMove, RuleDatedFlag, RulePlainBogus}

\* tuples of at most n elements of S
RECURSIVE SeqsUpTo(_, _)
SeqsUpTo(S, n) ==
    IF n = 0 THEN {<<>>}
    ELSE LET shorter == SeqsUpTo(S, n - 1)
         IN shorter \cup {Append(q, x) : q \in {r \in shorter : Len(r) = n - 1}, x \in S}

\* the rule list of a mailbox: at most MaxRules different rules, in any order
RuleLists ==
    {q \in SeqsUpTo(RuleSet, MaxRules) :
        \A i, j \in 1..Len(q) : i # j => q[i] # q[j]}

\* a configuration lists the first k mailboxes of MailboxOrder, each with the
\* rule list rl
Configs ==
    {[mailboxes |-> [i \in 1..k |-> [name |-> MailboxOrder[i], rules |-> rl]],
      trash_mailbox |-> TrashBox] :
        k \in 1..Len(MailboxOrder), rl \in RuleLists}

\* what a mailbox holds before the run: a message, and on the remote
\* backend possibly a deletion marker left by an earlier session
StoredVariants(be) ==
    {[msg |-> m, flags |-> {}] : m \in Messages}
    \cup (IF be = "imap" THEN {[msg |-> MsgPlain, flags |-> {DELETED}]} ELSE {})

InitialInboxes(be) ==
    {[i \in 1..Len(q) |-> [id |-> i, msg |-> q[i].msg, flags |-> q[i].flags]] :
        q \in SeqsUpTo(StoredVariants(be), MaxMsgs)}

\* before the run INBOX is the only mailbox
InitialBackends(be) == {(INBOX :> inbox) : inbox \in InitialInboxes(be)}

\* ------------------------------------------------------------------------
\* State
\* ------------------------------------------------------------------------
VARIABLES
    backend,          \* "imap" (IMAPClient) or "maildir" (MaildirClient)
    cfg,              \* the configuration
    dry_run,          \* --dry-run
    debug,            \* --debug
    progress_tracker, \* "progress" (ProgressTracker) or "null" (NullProgressTracker)
    init_boxes,       \* the backend as it was before the run
    boxes,            \* the backend: mailbox name -> stored messages
    uidnext,          \* mailbox name -> the id the next added message gets
    selected,         \* IMAP session: the selected folder (NoName: none)
    mbox_names,       \* IMAPClient._mbox_names: [loaded, names]
    pc,               \* position of process_rules
    mb,               \* index of the current entry of cfg["mailboxes"]
    snapshot,         \* the iterator's _msg_ids / _results
    pos,              \* index of the iteration in snapshot
    cur,              \* (msg_id, message) of the loop
    rule_idx,         \* index of the rule of mailbox_rules being checked
    action,           \* the action object built for the matching rule
    num_messages,
    num_processed,
    num_errors,
    stats,            \* ProgressTracker._stats: total_messages and seen
    interrupted,      \* ProgressTracker._interrupted
    faults,           \* backend operations that have failed so far
    log,              \* history of what process_rules did
    it,               \* the MailboxIterator a caller of the client holds
    locks,            \* MaildirClient: the mailboxes whose _locked scope is open
    call,             \* the client call in progress
    session           \* the IMAP session: "open" or "out" (logged out)

inputs == <<backend, cfg, dry_run, debug, progress_tracker, init_boxes>>
store == <<boxes, uidnext, selected, mbox_names>>
loop == <<mb, snapshot, pos, cur, rule_idx, action>>
counters == <<num_messages, num_processed, num_errors, stats>>
harness == <<it, locks, call, session>>
vars == <<inputs, store, pc, loop, counters, interrupted, faults, log, harness>>

NoMsg == [id |-> 0, msg |-> <<>>, flags |-> {}]
NoActionObj == [ok |-> FALSE, name |-> "", data |-> NoAction, dest_mailbox |-> NoName]

\* no iterator yet.  loaded and items are _msg_ids / _results (loaded FALSE:
\* None); queries counts the enumerations the iterator has issued and
\* at_creation remembers the mailbox as it was when the iterator was made
NoIterator ==
    [made |-> FALSE, name |-> NoName, loaded |-> FALSE, items |-> <<>>, queries |-> 0,
     at_creation |-> <<>>]

\* no client call in progress.  op is the method called, phase the method
\* that is running (for move_message: copy, then delete), stage the place
\* in the _locked scope, raised whether the body of the scope raised, and
\* before the backend as it was when the call began
Idle ==
    [op |-> "", phase |-> "", stage |-> "", src |-> NoName, dest |-> NoName, on |-> FALSE,
     raised |-> FALSE, before |-> <<>>]

\* the statistics of a new ProgressTracker
NoStats == [total_messages |-> 0, seen |-> 0]

\* start_mailbox and update_message of the tracker in use: ProgressTracker
\* adds to its statistics, NullProgressTracker does nothing
start_mailbox(st, total_messages) ==
    IF progress_tracker = "progress"
    THEN [st EXCEPT !.total_messages = @ + total_messages]
    ELSE st

update_message(st, advance) ==
    IF progress_tracker = "progress" /\ advance > 0
    THEN [st EXCEPT !.seen = @ + advance]
    ELSE st

Init ==
    /\ backend \in {"imap", "maildir"}
    /\ cfg \in Configs
    /\ dry_run \in BOOLEAN
    /\ debug \in BOOLEAN
    /\ progress_tracker \in {"progress", "null"}
    /\ init_boxes \in InitialBackends(backend)
    /\ boxes = init_boxes
    /\ uidnext = [n \in DOMAIN init_boxes |-> Len(init_boxes[n]) + 1]
    /\ selected = NoName
    /\ mbox_names = [loaded |-> FALSE, names |-> {}]
    /\ pc = "mailbox"
    /\ mb = 1
    /\ snapshot = <<>>
    /\ pos = 1
    /\ cur = NoMsg
    /\ rule_idx = 1
    /\ action = NoActionObj
    /\ num_messages = 0
    /\ num_processed = 0
    /\ num_errors = 0
    /\ stats = NoStats
    /\ interrupted = FALSE
    /\ faults = 0
    /\ log = <<>>
    /\ it = NoIterator
    /\ locks = {}
    /\ call = Idle
    /\ session = "open"

\* ------------------------------------------------------------------------
\* process_rules (app.py)
\* ------------------------------------------------------------------------
mailbox == cfg.mailboxes[mb]
mailbox_name == mailbox.name
mailbox_rules == mailbox.rules

\* is_interrupted of a tracker that never reports the interrupt
is_interrupted_Never == FALSE

\* ProgressTracker.is_interrupted / NullProgressTracker.is_interrupted
is_interrupted == IF progress_tracker = "progress" THEN interrupted ELSE FALSE

\* one entry of the history: what happened (ev), in which turn of the loop
\* over the mailboxes (pass), for which message (id) and rule, whether it
\* returned normally (ok), and the mailbox or action it names (arg).  The
\* iterator entry carries the iterator's length in id.
Ev(ev, id, rule, ok, arg) ==
    [ev |-> ev, pass |-> mb, id |-> id, rule |-> rule, ok |-> ok, arg |-> arg]

\* Failed with the exception re-raised whatever debug is
Failed_AlwaysRaises(entries) ==
    /\ log' = log \o entries \o <<Ev("error", cur.id, rule_idx, FALSE, NoName)>>
    /\ num_errors' = num_errors + 1
    /\ UNCHANGED <<num_messages, num_processed>>
    /\ stats' = update_message(stats, 1)
    /\ pc' = "aborted"
    /\ UNCHANGED <<mb, snapshot, pos, cur, rule_idx, action>>

\* Failed with the exception swallowed whatever debug is
Failed_NeverRaises(entries) ==
    /\ log' = log \o entries \o <<Ev("error", cur.id, rule_idx, FALSE, NoName)>>
    /\ num_errors' = num_errors + 1
    /\ UNCHANGED <<num_messages, num_processed>>
    /\ stats' = update_message(update_message(stats, 1), 1)
    /\ pc' = "message"
    /\ pos' = pos + 1
    /\ UNCHANGED <<mb, snapshot, cur, rule_idx, action>>

\* an except clause that does not count the error
Failed_Uncounted(entries) ==
    /\ log' = log \o entries \o <<Ev("error", cur.id, rule_idx, FALSE, NoName)>>
    /\ UNCHANGED <<num_messages, num_processed, num_errors>>
    /\ stats' = IF debug THEN update_message(stats, 1)
               ELSE update_message(update_message(stats, 1), 1)
    /\ IF debug
       THEN pc' = "aborted" /\ pos' = pos
       ELSE pc' = "message" /\ pos' = pos + 1
    /\ UNCHANGED <<mb, snapshot, cur, rule_idx, action>>

\* the except clause of the loop body: count the error, re-raise under debug
Failed(entries) ==
    /\ log' = log \o entries \o <<Ev("error", cur.id, rule_idx, FALSE, NoName)>>
    /\ num_errors' = num_errors + 1
    /\ UNCHANGED <<num_messages, num_processed>>
    /\ stats' = IF debug THEN update_message(stats, 1)
               ELSE update_message(update_message(stats, 1), 1)
    /\ IF debug
       THEN pc' = "aborted" /\ pos' = pos
       ELSE pc' = "message" /\ pos' = pos + 1
    /\ UNCHANGED <<mb, snapshot, cur, rule_idx, action>>

\* Succeeded without the break that ends the loop over the rules
Succeeded_NoBreak(entries) ==
    /\ log' = log \o entries \o <<Ev("processed", cur.id, rule_idx, TRUE, NoName)>>
    /\ num_processed' = num_processed + 1
    /\ UNCHANGED <<num_messages, num_errors>>
    /\ stats' = update_message(stats, 1)
    /\ pc' = "rules"
    /\ rule_idx' = rule_idx + 1
    /\ UNCHANGED <<mb, snapshot, pos, cur, action>>

\* the else clause of the try: the message counts as processed
Succeeded(entries) ==
    /\ log' = log \o entries \o <<Ev("processed", cur.id, rule_idx, TRUE, NoName)>>
    /\ num_processed' = num_processed + 1
    /\ UNCHANGED <<num_messages, num_errors>>
    /\ stats' = update_message(stats, 1)
    /\ pc' = "message"
    /\ pos' = pos + 1
    /\ UNCHANGED <<mb, snapshot, cur, rule_idx, action>>

\* OpenMailbox over the mailboxes as they were when the run began, as if
\* all of them had been enumerated before the first pass
OpenMailbox_EnumeratedAtStart ==
    LET held == IF mailbox_name \in DOMAIN init_boxes THEN init_boxes[mailbox_name]
                ELSE <<>>
    IN IF \E i \in 1..Len(mailbox_rules) : ~Rule_factory_ok(mailbox_rules[i])
       THEN /\ pc' = "aborted"
            /\ log' = Append(log, Ev("raise", 0, 0, FALSE, mailbox_name))
            /\ UNCHANGED <<boxes, uidnext, selected, snapshot, pos, stats>>
       ELSE IF backend = "imap"
       THEN IF mailbox_name \in DOMAIN boxes
            THEN /\ selected' = mailbox_name
                 /\ snapshot' = [i \in 1..Len(held) |-> [NoMsg EXCEPT !.id = held[i].id]]
                 /\ pos' = 1
                 /\ pc' = "message"
                 /\ log' = Append(log, Ev("iterator", Len(held), 0, TRUE, mailbox_name))
                 /\ stats' = start_mailbox(stats, Len(held))
                 /\ UNCHANGED <<boxes, uidnext>>
            ELSE /\ pc' = "aborted"
                 /\ log' = Append(log, Ev("raise", 0, 0, FALSE, mailbox_name))
                 /\ UNCHANGED <<boxes, uidnext, selected, snapshot, pos, stats>>
       ELSE LET opened == Maildir_open(boxes, uidnext, mailbox_name)
            IN /\ boxes' = opened.boxes
               /\ uidnext' = opened.uidnext
               /\ snapshot' = held
               /\ pos' = 1
               /\ pc' = "message"
               /\ log' = Append(log, Ev("iterator", Len(held), 0, TRUE, mailbox_name))
               /\ stats' = start_mailbox(stats, Len(held))
               /\ UNCHANGED selected

\* OpenMailbox with the rules built when they are first checked, not before
\* the iterator is obtained
OpenMailbox_LazyRules ==
    IF backend = "imap"
    THEN IF mailbox_name \in DOMAIN boxes
         THEN /\ selected' = mailbox_name
              /\ snapshot' = [i \in 1..Len(boxes[mailbox_name]) |->
                                [NoMsg EXCEPT !.id = boxes[mailbox_name][i].id]]
              /\ pos' = 1
              /\ pc' = "message"
              /\ log' = Append(log, Ev("iterator", Len(boxes[mailbox_name]), 0, TRUE,
                                      mailbox_name))
              /\ stats' = start_mailbox(stats, Len(boxes[mailbox_name]))
              /\ UNCHANGED <<boxes, uidnext>>
         ELSE /\ pc' = "aborted"
              /\ log' = Append(log, Ev("raise", 0, 0, FALSE, mailbox_name))
              /\ UNCHANGED <<boxes, uidnext, selected, snapshot, pos, stats>>
    ELSE LET opened == Maildir_open(boxes, uidnext, mailbox_name)
         IN /\ boxes' = opened.boxes
            /\ uidnext' = opened.uidnext
            /\ snapshot' = opened.boxes[mailbox_name]
            /\ pos' = 1
            /\ pc' = "message"
            /\ log' = Append(log, Ev("iterator", Len(opened.boxes[mailbox_name]), 0,
                                    TRUE, mailbox_name))
            /\ stats' = start_mailbox(stats, Len(opened.boxes[mailbox_name]))
            /\ UNCHANGED selected

\* mailbox_rules, get_mailbox_iterator and len(mailbox_iter) for the
\* current mailbox: rules.factory may raise; on the remote backend the first
\* len() selects the folder and searches it, on the local one it reads the
\* mailbox under _locked
OpenMailbox ==
    IF \E i \in 1..Len(mailbox_rules) : ~Rule_factory_ok(mailbox_rules[i])
    THEN /\ pc' = "aborted"
         /\ log' = Append(log, Ev("raise", 0, 0, FALSE, mailbox_name))
         /\ UNCHANGED <<boxes, uidnext, selected, snapshot, pos, stats>>
    ELSE IF backend = "imap"
    THEN IF mailbox_name \in DOMAIN boxes
         THEN /\ selected' = mailbox_name
              /\ snapshot' = [i \in 1..Len(boxes[mailbox_name]) |->
                                [NoMsg EXCEPT !.id = boxes[mailbox_name][i].id]]
              /\ pos' = 1
              /\ pc' = "message"
              /\ log' = Append(log, Ev("iterator", Len(boxes[mailbox_name]), 0, TRUE,
                                      mailbox_name))
              /\ stats' = start_mailbox(stats, Len(boxes[mailbox_name]))
              /\ UNCHANGED <<boxes, uidnext>>
         ELSE /\ pc' = "aborted"
              /\ log' = Append(log, Ev("raise", 0, 0, FALSE, mailbox_name))
              /\ UNCHANGED <<boxes, uidnext, selected, snapshot, pos, stats>>
    ELSE LET opened == Maildir_open(boxes, uidnext, mailbox_name)
         IN /\ boxes' = opened.boxes
            /\ uidnext' = opened.uidnext
            /\ snapshot' = opened.boxes[mailbox_name]
            /\ pos' = 1
            /\ pc' = "message"
            /\ log' = Append(log, Ev("iterator", Len(opened.boxes[mailbox_name]), 0,
                                    TRUE, mailbox_name))
            /\ stats' = start_mailbox(stats, Len(opened.boxes[mailbox_name]))
            /\ UNCHANGED selected

\* StartMailbox without the cancellation check
StartMailbox_NoCheck ==
    /\ pc = "mailbox"
    /\ mb <= Len(cfg.mailboxes)
    /\ UNCHANGED <<inputs, harness, num_messages, num_processed, num_errors, interrupted,
                   faults, mbox_names, mb, cur, rule_idx, action>>
    /\ OpenMailbox

\* top of the loop over cfg["mailboxes"]: the cancellation check, then the
\* rule list, the iterator and its length
StartMailbox ==
    /\ pc = "mailbox"
    /\ mb <= Len(cfg.mailboxes)
    /\ UNCHANGED <<inputs, harness, num_messages, num_processed, num_errors, interrupted,
                   faults, mbox_names, mb, cur, rule_idx, action>>
    /\ IF is_interrupted
       THEN /\ pc' = "summary"
            /\ log' = Append(log, Ev("interrupted", 0, 0, TRUE, NoName))
            /\ UNCHANGED <<boxes, uidnext, selected, snapshot, pos, stats>>
       ELSE OpenMailbox

\* NextMessage over the mailbox as it is now, not as it was enumerated
NextMessage_Live ==
    /\ pc = "message"
    /\ UNCHANGED <<inputs, harness, store, interrupted, faults, mb, snapshot, pos, action,
                   num_processed, num_errors, stats>>
    /\ LET live == boxes[mailbox_name]
       IN IF pos > Len(live)
          THEN /\ pc' = "expunge"
               /\ UNCHANGED <<log, cur, rule_idx, num_messages>>
          ELSE IF is_interrupted
          THEN /\ pc' = "expunge"
               /\ log' = Append(log, Ev("interrupted", live[pos].id, 0, TRUE, NoName))
               /\ UNCHANGED <<cur, rule_idx, num_messages>>
          ELSE /\ cur' = live[pos]
               /\ num_messages' = num_messages + 1
               /\ rule_idx' = 1
               /\ pc' = "rules"
               /\ log' = Append(log, Ev("visit", live[pos].id, 0, TRUE, NoName))

\* NextMessage that leaves the mailbox loop too when it is interrupted, so
\* that the expunge of the current mailbox is skipped
NextMessage_SkipsExpunge ==
    /\ pc = "message"
    /\ UNCHANGED <<inputs, harness, store, interrupted, faults, mb, snapshot, pos, action,
                   num_processed, num_errors, stats>>
    /\ IF pos > Len(snapshot)
       THEN /\ pc' = "expunge"
            /\ UNCHANGED <<log, cur, rule_idx, num_messages>>
       ELSE IF is_interrupted
       THEN /\ pc' = "summary"
            /\ log' = Append(log, Ev("interrupted", snapshot[pos].id, 0, TRUE, NoName))
            /\ UNCHANGED <<cur, rule_idx, num_messages>>
       ELSE /\ cur' = IF backend = "imap"
                      THEN [snapshot[pos] EXCEPT
                              !.msg = ById(boxes[selected], snapshot[pos].id).msg]
                      ELSE snapshot[pos]
            /\ num_messages' = num_messages + 1
            /\ rule_idx' = 1
            /\ pc' = "rules"
            /\ log' = Append(log, Ev("visit", snapshot[pos].id, 0, TRUE, NoName))

\* top of the loop over the iterator: the next (msg_id, message) and the
\* cancellation check
NextMessage ==
    /\ pc = "message"
    /\ UNCHANGED <<inputs, harness, store, interrupted, faults, mb, snapshot, pos, action,
                   num_processed, num_errors, stats>>
    /\ IF pos > Len(snapshot)
       THEN /\ pc' = "expunge"
            /\ UNCHANGED <<log, cur, rule_idx, num_messages>>
       ELSE IF backend = "imap" /\ ~HasId(boxes[selected], snapshot[pos].id)
       THEN /\ pc' = "aborted"
            /\ log' = Append(log, Ev("raise", snapshot[pos].id, 0, FALSE, NoName))
            /\ UNCHANGED <<cur, rule_idx, num_messages>>
       ELSE IF is_interrupted
       THEN /\ pc' = "expunge"
            /\ log' = Append(log, Ev("interrupted", snapshot[pos].id, 0, TRUE, NoName))
            /\ UNCHANGED <<cur, rule_idx, num_messages>>
       ELSE /\ cur' = IF backend = "imap"
                      THEN [snapshot[pos] EXCEPT
                              !.msg = ById(boxes[selected], snapshot[pos].id).msg]
                      ELSE snapshot[pos]
            /\ num_messages' = num_messages + 1
            /\ rule_idx' = 1
            /\ pc' = "rules"
            /\ log' = Append(log, Ev("visit", snapshot[pos].id, 0, TRUE, NoName))

\* one turn of the loop over mailbox_rules: check the rule and, when it
\* matches, build its action
CheckRule ==
    /\ pc = "rules"
    /\ UNCHANGED <<inputs, harness, store, interrupted, faults, mb, snapshot, cur, num_messages,
                   num_processed, num_errors>>
    /\ IF rule_idx > Len(mailbox_rules)
       THEN /\ pc' = "message"
            /\ pos' = pos + 1
            /\ log' = Append(log, Ev("unmatched", cur.id, 0, FALSE, NoName))
            /\ stats' = update_message(stats, 1)
            /\ UNCHANGED <<rule_idx, action>>
       ELSE LET rule == mailbox_rules[rule_idx]
                matches == Rule_check(rule, cur.msg)
                built == Action_factory(Rule_get_action(rule), cfg)
                checked == Ev("check", cur.id, rule_idx, matches, NoName)
            IN IF ~matches
               THEN /\ rule_idx' = rule_idx + 1
                    /\ log' = Append(log, checked)
                    /\ UNCHANGED <<pc, pos, action, stats>>
               ELSE IF ~built.ok
               THEN /\ pc' = "aborted"
                    /\ log' = log \o <<checked, Ev("raise", cur.id, rule_idx, FALSE, NoName)>>
                    /\ UNCHANGED <<pos, rule_idx, action, stats>>
               ELSE /\ action' = built
                    /\ pc' = "report"
                    /\ log' = log \o <<checked, Ev("factory", cur.id, rule_idx, TRUE, NoName)>>
                    /\ UNCHANGED <<pos, rule_idx, stats>>

\* Report with the dry_run test left out
Report_IgnoresDryRun ==
    /\ pc = "report"
    /\ UNCHANGED <<inputs, harness, store, interrupted, faults>>
    /\ LET ok == Action_report_ok(action, cur.msg)
           reported == Ev("report", cur.id, rule_idx, ok, NoName)
       IN IF ~ok THEN Failed(<<reported>>)
          ELSE /\ pc' = "invoke"
               /\ log' = Append(log, reported)
               /\ UNCHANGED <<loop, counters>>

\* action.report(...), and under dry_run the end of the try block
Report ==
    /\ pc = "report"
    /\ UNCHANGED <<inputs, harness, store, interrupted, faults>>
    /\ LET ok == Action_report_ok(action, cur.msg)
           reported == Ev("report", cur.id, rule_idx, ok, NoName)
       IN IF ~ok THEN Failed(<<reported>>)
          ELSE IF dry_run THEN Succeeded(<<reported>>)
          ELSE /\ pc' = "invoke"
               /\ log' = Append(log, reported)
               /\ UNCHANGED <<loop, counters>>

\* ------------------------------------------------------------------------
\* Client methods on the current backend.  Each yields [ok, boxes, uidnext,
\* mbox_names, entries]: whether it returned, the backend it leaves and the
\* operations it issued.  fail names the operation that fails, "" for none.
\* ------------------------------------------------------------------------
Result(ok, b, u, names, entries) ==
    [ok |-> ok, boxes |-> b, uidnext |-> u, mbox_names |-> names, entries |-> entries]

\* IMAPClient._ensure_mailbox (the listing on the first call, the creation
\* of a destination the cache does not hold) followed by the copy
\* a cache that is dropped after every call, so the next one lists again
ensure_mailbox_Forgets(names, created, dest) == [loaded |-> FALSE, names |-> {}]

\* IMAPClient._ensure_mailbox: the name set after the call; the listing is
\* kept and the name is added once create_folder has returned
ensure_mailbox(names, created, dest) ==
    [loaded |-> TRUE, names |-> IF created THEN names \cup {dest} ELSE names]

IMAPClient_copy_message(dest, fail) ==
    LET names == IF mbox_names.loaded THEN mbox_names.names ELSE DOMAIN boxes
        create == dest \notin names
        created == create /\ fail # "create" /\ dest \notin DOMAIN boxes
        b1 == IF created THEN boxes @@ (dest :> <<>>) ELSE boxes
        u1 == IF created THEN uidnext @@ (dest :> 1) ELSE uidnext
        cache == ensure_mailbox(names, created, dest)
        listed == IF mbox_names.loaded THEN <<>>
                  ELSE <<Ev("list", cur.id, rule_idx, TRUE, NoName)>>
        created_entry == listed \o (IF create
                                    THEN <<Ev("create", cur.id, rule_idx, created, dest)>>
                                    ELSE <<>>)
        copied == fail # "copy" /\ dest \in DOMAIN b1 /\ selected # NoName
        after == IMAP_copy(b1, u1, selected, cur.id, dest)
    IN IF create /\ ~created
       THEN Result(FALSE, boxes, uidnext, cache, created_entry)
       ELSE IF ~copied
       THEN Result(FALSE, b1, u1, cache,
                   created_entry \o <<Ev("copy", cur.id, rule_idx, FALSE, dest)>>)
       ELSE Result(TRUE, after.boxes, after.uidnext, cache,
                   created_entry \o <<Ev("copy", cur.id, rule_idx, TRUE, dest)>>)

\* MaildirClient.copy_message: box.add(message) under _locked(dest_mailbox)
MaildirClient_copy_message(dest, fail) ==
    LET opened == Maildir_open(boxes, uidnext, dest)
        after == Maildir_add(opened.boxes, opened.uidnext, dest, cur)
    IN IF fail = "copy"
       THEN Result(FALSE, opened.boxes, opened.uidnext, mbox_names,
                   <<Ev("copy", cur.id, rule_idx, FALSE, dest)>>)
       ELSE Result(TRUE, after.boxes, after.uidnext, mbox_names,
                   <<Ev("copy", cur.id, rule_idx, TRUE, dest)>>)

\* copy_message that returns normally although the copy failed
copy_message_SwallowsError(dest, fail) ==
    LET res == IF backend = "imap" THEN IMAPClient_copy_message(dest, fail)
               ELSE MaildirClient_copy_message(dest, fail)
    IN [res EXCEPT !.ok = TRUE]

copy_message(dest, fail) ==
    IF backend = "imap" THEN IMAPClient_copy_message(dest, fail)
    ELSE MaildirClient_copy_message(dest, fail)

\* delete_message that removes the message at once on both backends
delete_message_RemovesNow(src, fail) ==
    IF fail = "delete" \/ (backend = "imap" /\ selected = NoName)
    THEN Result(FALSE, boxes, uidnext, mbox_names,
                <<Ev("delete", cur.id, rule_idx, FALSE, src)>>)
    ELSE Result(TRUE,
                Maildir_remove(boxes, IF backend = "imap" THEN selected ELSE src, cur.id),
                uidnext, mbox_names, <<Ev("delete", cur.id, rule_idx, TRUE, src)>>)

\* IMAPClient.delete_message sets the deletion marker in the selected
\* folder; MaildirClient.delete_message removes the key under _locked(src)
delete_message(src, fail) ==
    IF backend = "imap"
    THEN IF fail = "delete" \/ selected = NoName
         THEN Result(FALSE, boxes, uidnext, mbox_names,
                     <<Ev("delete", cur.id, rule_idx, FALSE, src)>>)
         ELSE Result(TRUE, IMAP_store(boxes, selected, cur.id, DELETED, TRUE), uidnext,
                     mbox_names, <<Ev("delete", cur.id, rule_idx, TRUE, src)>>)
    ELSE LET opened == Maildir_open(boxes, uidnext, src)
         IN IF fail = "delete" \/ ~HasId(opened.boxes[src], cur.id)
            THEN Result(FALSE, opened.boxes, opened.uidnext, mbox_names,
                        <<Ev("delete", cur.id, rule_idx, FALSE, src)>>)
            ELSE Result(TRUE, Maildir_remove(opened.boxes, src, cur.id), opened.uidnext,
                        mbox_names, <<Ev("delete", cur.id, rule_idx, TRUE, src)>>)

\* set_flagged and set_read of both clients: flag is the flag of the backend
set_flag(src, ev, imap_flag, maildir_flag, on, fail) ==
    IF backend = "imap"
    THEN IF fail = "flag" \/ selected = NoName
         THEN Result(FALSE, boxes, uidnext, mbox_names,
                     <<Ev(ev, cur.id, rule_idx, FALSE, src)>>)
         ELSE Result(TRUE, IMAP_store(boxes, selected, cur.id, imap_flag, on), uidnext,
                     mbox_names, <<Ev(ev, cur.id, rule_idx, TRUE, src)>>)
    ELSE LET opened == Maildir_open(boxes, uidnext, src)
         IN IF fail = "flag" \/ ~HasId(opened.boxes[src], cur.id)
            THEN Result(FALSE, opened.boxes, opened.uidnext, mbox_names,
                        <<Ev(ev, cur.id, rule_idx, FALSE, src)>>)
            ELSE Result(TRUE,
                        Maildir_set_flag(opened.boxes, src, cur.id, maildir_flag, on),
                        opened.uidnext, mbox_names,
                        <<Ev(ev, cur.id, rule_idx, TRUE, src)>>)

set_flagged(src, on, fail) == set_flag(src, "set_flagged", FLAGGED, "F", on, fail)
set_read(src, on, fail) == set_flag(src, "set_read", SEEN, "R", on, fail)

\* the operations of one step that can fail while the budget lasts
Failures(ops) == {""} \cup (IF faults < MaxFaults THEN ops ELSE {})

\* a client whose copy leaves the destination folder selected
Applied_SelectsDest(res) ==
    /\ boxes' = res.boxes
    /\ uidnext' = res.uidnext
    /\ mbox_names' = res.mbox_names
    /\ selected' = IF /\ backend = "imap"
                      /\ \E k \in DOMAIN res.entries :
                            res.entries[k].ev = "copy" /\ res.entries[k].ok
                   THEN res.entries[Len(res.entries)].arg
                   ELSE selected

Applied(res) ==
    /\ boxes' = res.boxes
    /\ uidnext' = res.uidnext
    /\ mbox_names' = res.mbox_names
    /\ UNCHANGED selected

\* action.invoke(...): the single client call of the flag, read-state and
\* delete actions, and for the move family the destination and the copy
\* half of Client.move_message
Invoke ==
    /\ pc = "invoke"
    /\ UNCHANGED <<inputs, harness, interrupted>>
    /\ LET invoked == Ev("invoke", cur.id, rule_idx, TRUE, <<action.name>>)
           dest == get_dest_mailbox(action, cur.msg)
       IN \E fail \in Failures({"create", "copy", "delete", "flag"}) :
            /\ faults' = IF fail = "" THEN faults ELSE faults + 1
            /\ IF action.name \in MoveFamily
               THEN IF ~dest.ok
                    THEN /\ fail = ""
                         /\ UNCHANGED store
                         /\ Failed(<<invoked>>)
                    ELSE LET res == copy_message(dest.val, fail)
                         IN /\ fail \in {"", "copy"}
                               \/ /\ fail = "create"
                                  /\ \E k \in DOMAIN res.entries :
                                        res.entries[k].ev = "create"
                            /\ Applied(res)
                            /\ IF res.ok
                               THEN /\ pc' = "delete"
                                    /\ log' = log \o <<invoked>> \o res.entries
                                    /\ UNCHANGED <<loop, counters>>
                               ELSE Failed(<<invoked>> \o res.entries)
               ELSE LET res ==
                          CASE action.name = "delete" ->
                                 delete_message(mailbox_name, fail)
                            [] action.name = "flag" ->
                                 set_flagged(mailbox_name, TRUE, fail)
                            [] action.name = "unflag" ->
                                 set_flagged(mailbox_name, FALSE, fail)
                            [] action.name = "mark_read" ->
                                 set_read(mailbox_name, TRUE, fail)
                            [] OTHER ->
                                 set_read(mailbox_name, FALSE, fail)
                    IN /\ fail \in {"", IF action.name = "delete" THEN "delete" ELSE "flag"}
                       /\ Applied(res)
                       /\ IF res.ok THEN Succeeded(<<invoked>> \o res.entries)
                          ELSE Failed(<<invoked>> \o res.entries)

\* the delete half of Client.move_message, reached when the copy returned
MoveDelete ==
    /\ pc = "delete"
    /\ UNCHANGED <<inputs, harness, interrupted>>
    /\ \E fail \in Failures({"delete"}) :
         LET res == delete_message(mailbox_name, fail)
         IN /\ faults' = IF fail = "" THEN faults ELSE faults + 1
            /\ Applied(res)
            /\ IF res.ok THEN Succeeded(res.entries) ELSE Failed(res.entries)

\* conn.expunge() after the loop over the iterator, then finish_mailbox()
Expunge ==
    /\ pc = "expunge"
    /\ boxes' = IF backend = "imap" /\ selected # NoName
                THEN IMAP_expunge(boxes, selected) ELSE boxes
    /\ log' = Append(log, Ev("expunge", 0, 0, TRUE, mailbox_name))
    /\ mb' = mb + 1
    /\ pc' = "mailbox"
    /\ UNCHANGED <<inputs, harness, uidnext, selected, mbox_names, snapshot, pos, cur, rule_idx,
                   action, counters, interrupted, faults>>

\* the summary lines after the loop over the mailboxes
Summary ==
    /\ \/ pc = "summary"
       \/ pc = "mailbox" /\ mb > Len(cfg.mailboxes)
    /\ pc' = "done"
    /\ log' = Append(log, [ev |-> "summary", pass |-> num_messages, id |-> num_processed,
                           rule |-> num_errors, ok |-> TRUE, arg |-> NoName])
    /\ UNCHANGED <<inputs, harness, store, loop, counters, interrupted, faults>>

\* ProgressTracker._handle_interrupt: SIGINT while the tracker is started
Interrupt ==
    /\ progress_tracker = "progress"
    /\ pc \notin {"done", "aborted"}
    /\ ~interrupted
    /\ interrupted' = TRUE
    /\ UNCHANGED <<inputs, harness, store, pc, loop, counters, faults, log>>

\* SIGINT while no handler is installed: NullProgressTracker.start installs
\* none, so KeyboardInterrupt is raised wherever process_rules is, and no
\* except clause of process_rules catches it
KeyboardInterrupt ==
    /\ progress_tracker = "null"
    /\ pc \notin {"done", "aborted"}
    /\ pc' = "aborted"
    /\ log' = Append(log, Ev("keyboard_interrupt", 0, 0, FALSE, NoName))
    /\ UNCHANGED <<inputs, harness, store, loop, counters, interrupted, faults>>

Next ==
    \/ StartMailbox
    \/ NextMessage
    \/ CheckRule
    \/ Report
    \/ Invoke
    \/ MoveDelete
    \/ Expunge
    \/ Summary
    \/ Interrupt
    \/ KeyboardInterrupt

Spec == Init /\ [][Next]_vars

\* ------------------------------------------------------------------------
\* The clients called directly (as client.py's callers and tests do): any
\* sequence of get_mailbox_iterator, len()/iter() of the iterator, copy,
\* delete, move, set_flagged, set_read, expunge and close, with another
\* process delivering a message in between.  On the local backend every
\* _locked scope is three steps: entering it, its body, leaving it.
\* ------------------------------------------------------------------------
MaxCalls == 3

pipeline == <<inputs, pc, mb, snapshot, pos, rule_idx, action, counters, interrupted>>

BoxOf(b, name) == IF name \in DOMAIN b THEN b[name] ELSE <<>>

\* the backends a caller may find: INBOX with up to MaxMsgs messages, and
\* Archive existing or not
ClientInboxes ==
    {[i \in 1..n |-> [id |-> i, msg |-> IF i % 2 = 1 THEN MsgSpam ELSE MsgPlain,
                      flags |-> {}]] : n \in 0..MaxMsgs}

ClientBackends ==
    {(INBOX :> inbox) : inbox \in ClientInboxes}
    \cup {(INBOX :> inbox) @@ (Archive :> <<>>) : inbox \in ClientInboxes}

ClientInit ==
    /\ backend \in {"imap", "maildir"}
    /\ cfg = [mailboxes |-> <<>>, trash_mailbox |-> TrashBox]
    /\ dry_run = FALSE
    /\ debug = FALSE
    /\ progress_tracker = "null"
    /\ init_boxes \in ClientBackends
    /\ boxes = init_boxes
    /\ uidnext = [n \in DOMAIN init_boxes |-> Len(init_boxes[n]) + 1]
    /\ selected \in (IF backend = "imap" THEN {NoName, INBOX} ELSE {NoName})
    /\ mbox_names = [loaded |-> FALSE, names |-> {}]
    /\ pc = "client"
    /\ mb = 1
    /\ snapshot = <<>>
    /\ pos = 1
    /\ cur = NoMsg
    /\ rule_idx = 0
    /\ action = NoActionObj
    /\ num_messages = 0
    /\ num_processed = 0
    /\ num_errors = 0
    /\ stats = NoStats
    /\ interrupted = FALSE
    /\ faults = 0
    /\ log = <<>>
    /\ it = NoIterator
    /\ locks = {}
    /\ call = Idle
    /\ session = "open"

\* the calls made so far
Calls == Cardinality({i \in DOMAIN log : log[i].ev \in {"call", "get_iterator", "expunge"}})

CanCall == session = "open" /\ call = Idle /\ Calls < MaxCalls

Called(op, id) == Ev("call", id, 0, TRUE, <<op>>)
Returned(op, id, ok) == Ev("return", id, 0, ok, <<op>>)

\* IMAPClient.get_mailbox_iterator / MaildirClient.get_mailbox_iterator: the
\* iterator object is made, nothing is read
get_mailbox_iterator ==
    /\ CanCall
    /\ ~it.made
    /\ \E name \in {INBOX, Archive} :
         /\ it' = [made |-> TRUE, name |-> name, loaded |-> FALSE, items |-> <<>>,
                   queries |-> 0, at_creation |-> BoxOf(boxes, name)]
         /\ log' = Append(log, Ev("get_iterator", 0, 0, TRUE, name))
    /\ UNCHANGED <<pipeline, store, cur, faults, locks, call, session>>

\* _msg_ids is None tested as if the list were never cached
msg_ids_cached_Never == FALSE

\* the test of _ensure_msg_ids / _ensure_results: is the list cached
msg_ids_cached == it.loaded

\* len() or iter() of an IMAPMailboxIterator: _ensure_msg_ids
IMAPMailboxIterator_use ==
    /\ backend = "imap"
    /\ CanCall
    /\ it.made
    /\ UNCHANGED <<pipeline, boxes, uidnext, mbox_names, cur, faults, locks, call, session>>
    /\ IF msg_ids_cached
       THEN /\ log' = log \o <<Called("use", Len(it.items)), Returned("use", Len(it.items), TRUE)>>
            /\ UNCHANGED <<it, selected>>
       ELSE IF it.name \in DOMAIN boxes
       THEN /\ selected' = it.name
            /\ it' = [it EXCEPT !.loaded = TRUE, !.items = Ids(boxes[it.name]),
                                !.queries = @ + 1]
            /\ log' = log \o <<Called("use", Len(boxes[it.name])),
                               Ev("search", Len(boxes[it.name]), 0, TRUE, it.name),
                               Returned("use", Len(boxes[it.name]), TRUE)>>
       ELSE /\ selected' = NoName
            /\ log' = log \o <<Called("use", 0), Returned("use", 0, FALSE)>>
            /\ UNCHANGED it

\* another process (a delivery agent, another mail client) adds a message
\* to the mailbox of the iterator while this client does not hold its lock
ExternalDeliver ==
    /\ session = "open"
    /\ \A i \in DOMAIN log : log[i].ev # "deliver"
    /\ it.made
    /\ \E name \in ((DOMAIN boxes) \ locks) \cap {it.name} :
         LET after == Maildir_add(boxes, uidnext, name, [NoMsg EXCEPT !.msg = MsgPlain])
         IN /\ boxes' = after.boxes
            /\ uidnext' = after.uidnext
            /\ log' = Append(log, Ev("deliver", uidnext[name], 0, TRUE, name))
    /\ UNCHANGED <<pipeline, selected, mbox_names, cur, faults, harness>>

\* len() or iter() of a MaildirMailboxIterator: _ensure_results, which
\* reads the mailbox in a _locked scope when nothing is cached
MaildirMailboxIterator_use ==
    /\ backend = "maildir"
    /\ CanCall
    /\ it.made
    /\ UNCHANGED <<pipeline, store, cur, faults, it, locks, session>>
    /\ IF msg_ids_cached
       THEN /\ log' = log \o <<Called("use", Len(it.items)), Returned("use", Len(it.items), TRUE)>>
            /\ UNCHANGED call
       ELSE /\ call' = [Idle EXCEPT !.op = "use", !.phase = "load", !.stage = "enter",
                                    !.src = it.name, !.dest = it.name, !.before = boxes]
            /\ log' = Append(log, Called("use", 0))

\* a caller calls copy_message, delete_message, move_message, set_flagged
\* or set_read for a message of a mailbox (on the remote backend: of the
\* selected folder); one such call is followed through in a run
StartCall ==
    /\ CanCall
    /\ \A i \in DOMAIN log : log[i].ev = "call" => log[i].arg = <<"use">>
    /\ \E op \in {"copy", "delete", "move", "set_flagged", "set_read"},
          src \in DOMAIN boxes, dest \in {INBOX, Archive}, on \in BOOLEAN :
         /\ backend = "imap" => src = selected
         /\ op \in {"copy", "delete", "move", "set_read"} => on
         /\ op \in {"delete", "set_flagged", "set_read"} => dest = src
         /\ \E k \in 1..Len(boxes[src]) :
               /\ cur' = boxes[src][k]
               /\ call' = [op |-> op, phase |-> IF op = "move" THEN "copy" ELSE op,
                           stage |-> "enter", src |-> src, dest |-> dest, on |-> on,
                           raised |-> FALSE, before |-> boxes]
               /\ log' = Append(log, Called(op, boxes[src][k].id))
    /\ UNCHANGED <<pipeline, store, faults, it, locks, session>>

\* one method of IMAPClient runs: copy_message, delete_message, set_flagged
\* or set_read; Client.move_message goes on to delete_message when
\* copy_message returned
IMAPClient_step ==
    /\ backend = "imap"
    /\ call.stage = "enter"
    /\ UNCHANGED <<pipeline, cur, it, locks, session>>
    /\ \E fail \in Failures({"create", "copy", "delete", "flag"}) :
         LET res == CASE call.phase = "copy" -> IMAPClient_copy_message(call.dest, fail)
                      [] call.phase = "delete" -> delete_message(call.src, fail)
                      [] call.phase = "set_flagged" -> set_flagged(call.src, call.on, fail)
                      [] OTHER -> set_read(call.src, call.on, fail)
             more == res.ok /\ call.op = "move" /\ call.phase = "copy"
         IN /\ \/ fail = ""
               \/ call.phase = "copy" /\ fail = "copy"
               \/ /\ call.phase = "copy" /\ fail = "create"
                  /\ \E k \in DOMAIN res.entries : res.entries[k].ev = "create"
               \/ call.phase = "delete" /\ fail = "delete"
               \/ call.phase \in {"set_flagged", "set_read"} /\ fail = "flag"
            /\ faults' = IF fail = "" THEN faults ELSE faults + 1
            /\ Applied(res)
            /\ IF more
               THEN /\ call' = [call EXCEPT !.phase = "delete"]
                    /\ log' = log \o res.entries
               ELSE /\ call' = Idle
                    /\ log' = log \o res.entries \o <<Returned(call.op, cur.id, res.ok)>>

\* the mailbox the running method of MaildirClient opens
scope_mailbox == IF call.phase = "copy" THEN call.dest ELSE call.src

\* MaildirClient._locked up to the yield: mailbox.Maildir(path,
\* create=True) and box.lock()
MaildirClient_locked_enter ==
    /\ backend = "maildir"
    /\ call.stage = "enter"
    /\ LET opened == Maildir_open(boxes, uidnext, scope_mailbox)
       IN /\ boxes' = opened.boxes
          /\ uidnext' = opened.uidnext
    /\ locks' = locks \cup {scope_mailbox}
    /\ call' = [call EXCEPT !.stage = "body"]
    /\ log' = Append(log, Ev("lock", cur.id, 0, TRUE, scope_mailbox))
    /\ UNCHANGED <<pipeline, selected, mbox_names, cur, faults, it, session>>

\* the body of the with statement, where an exception skips the rest of
\* _locked
MaildirClient_locked_body_NoFinally ==
    /\ backend = "maildir"
    /\ call.stage = "body"
    /\ UNCHANGED <<pipeline, selected, mbox_names, cur, locks, session>>
    /\ \E fail \in Failures({"body"}) :
         LET mbx == scope_mailbox
             missing == /\ call.phase \in {"delete", "set_flagged", "set_read"}
                        /\ ~HasId(boxes[mbx], cur.id)
             ok == fail = "" /\ ~missing
             same == [boxes |-> boxes, uidnext |-> uidnext]
             after ==
                CASE call.phase = "copy" -> Maildir_add(boxes, uidnext, mbx, cur)
                  [] call.phase = "delete" ->
                       [same EXCEPT !.boxes = Maildir_remove(boxes, mbx, cur.id)]
                  [] call.phase = "set_flagged" ->
                       [same EXCEPT !.boxes = Maildir_set_flag(boxes, mbx, cur.id, "F", call.on)]
                  [] call.phase = "set_read" ->
                       [same EXCEPT !.boxes = Maildir_set_flag(boxes, mbx, cur.id, "R", call.on)]
                  [] OTHER -> same
         IN /\ faults' = IF fail = "" THEN faults ELSE faults + 1
            /\ boxes' = IF ok THEN after.boxes ELSE boxes
            /\ uidnext' = IF ok THEN after.uidnext ELSE uidnext
            /\ it' = IF ok /\ call.phase = "load"
                     THEN [it EXCEPT !.loaded = TRUE, !.items = boxes[mbx], !.queries = @ + 1]
                     ELSE it
            /\ log' = Append(log, Ev(call.phase, cur.id, 0, ok, mbx))
                      \o IF ok THEN <<>> ELSE <<Returned(call.op, cur.id, FALSE)>>
            /\ call' = IF ok THEN [call EXCEPT !.stage = "leave"] ELSE Idle

\* the body of the with statement of a method of MaildirClient (or of
\* _ensure_results): box.add, box.remove, box[message_id] = message,
\* list(box.iteritems()); it may raise
MaildirClient_locked_body ==
    /\ backend = "maildir"
    /\ call.stage = "body"
    /\ UNCHANGED <<pipeline, selected, mbox_names, cur, locks, session>>
    /\ \E fail \in Failures({"body"}) :
         LET mbx == scope_mailbox
             missing == /\ call.phase \in {"delete", "set_flagged", "set_read"}
                        /\ ~HasId(boxes[mbx], cur.id)
             ok == fail = "" /\ ~missing
             same == [boxes |-> boxes, uidnext |-> uidnext]
             after ==
                CASE call.phase = "copy" -> Maildir_add(boxes, uidnext, mbx, cur)
                  [] call.phase = "delete" ->
                       [same EXCEPT !.boxes = Maildir_remove(boxes, mbx, cur.id)]
                  [] call.phase = "set_flagged" ->
                       [same EXCEPT !.boxes = Maildir_set_flag(boxes, mbx, cur.id, "F", call.on)]
                  [] call.phase = "set_read" ->
                       [same EXCEPT !.boxes = Maildir_set_flag(boxes, mbx, cur.id, "R", call.on)]
                  [] OTHER -> same
         IN /\ faults' = IF fail = "" THEN faults ELSE faults + 1
            /\ boxes' = IF ok THEN after.boxes ELSE boxes
            /\ uidnext' = IF ok THEN after.uidnext ELSE uidnext
            /\ it' = IF ok /\ call.phase = "load"
                     THEN [it EXCEPT !.loaded = TRUE, !.items = boxes[mbx], !.queries = @ + 1]
                     ELSE it
            /\ log' = Append(log, Ev(call.phase, cur.id, 0, ok, mbx))
            /\ call' = [call EXCEPT !.stage = "leave", !.raised = ~ok]

\* leaving _locked with the lock of the copy kept while move_message goes on
MaildirClient_locked_leave_KeepsLock ==
    /\ backend = "maildir"
    /\ call.stage = "leave"
    /\ UNCHANGED <<pipeline, store, cur, faults, it, session>>
    /\ LET unlocked == Ev("unlock", cur.id, 0, TRUE, scope_mailbox)
           more == ~call.raised /\ call.op = "move" /\ call.phase = "copy"
       IN IF more
          THEN /\ call' = [call EXCEPT !.phase = "delete", !.stage = "enter"]
               /\ locks' = locks
               /\ log' = log
          ELSE /\ call' = Idle
               /\ locks' = {}
               /\ log' = log \o <<unlocked,
                                  Returned(call.op,
                                           IF call.op = "use" THEN Len(it.items) ELSE cur.id,
                                           ~call.raised)>>

\* the finally clause of _locked: box.flush() and box.close(); then the
\* method returns or raises, and Client.move_message goes on to
\* delete_message when copy_message returned
MaildirClient_locked_leave ==
    /\ backend = "maildir"
    /\ call.stage = "leave"
    /\ UNCHANGED <<pipeline, store, cur, faults, it, session>>
    /\ locks' = locks \ {scope_mailbox}
    /\ LET unlocked == Ev("unlock", cur.id, 0, TRUE, scope_mailbox)
           more == ~call.raised /\ call.op = "move" /\ call.phase = "copy"
       IN IF more
          THEN /\ call' = [call EXCEPT !.phase = "delete", !.stage = "enter"]
               /\ log' = Append(log, unlocked)
          ELSE /\ call' = Idle
               /\ log' = log \o <<unlocked,
                                  Returned(call.op,
                                           IF call.op = "use" THEN Len(it.items) ELSE cur.id,
                                           ~call.raised)>>

\* IMAPClient.expunge / MaildirClient.expunge
Client_expunge ==
    /\ CanCall
    /\ boxes' = IF backend = "imap" /\ selected # NoName
                THEN IMAP_expunge(boxes, selected) ELSE boxes
    /\ log' = Append(log, Ev("expunge", 0, 0, TRUE, selected))
    /\ UNCHANGED <<pipeline, uidnext, selected, mbox_names, cur, faults, harness>>

\* close() that lets the exception of the soft close out
Client_close_Propagates ==
    /\ session = "open"
    /\ call = Idle
    /\ session' = "out"
    /\ UNCHANGED <<pipeline, store, cur, it, locks, call>>
    /\ IF backend = "maildir"
       THEN /\ log' = log \o <<Called("close", 0), Returned("close", 0, TRUE)>>
            /\ UNCHANGED faults
       ELSE \E soft \in Failures({"close"}), out \in Failures({"logout"}) :
              /\ faults' = faults + (IF soft = "" THEN 0 ELSE 1) + (IF out = "" THEN 0 ELSE 1)
              /\ log' = log \o <<Called("close", 0), Ev("soft_close", 0, 0, soft = "", NoName)>>
                            \o (IF soft = ""
                                THEN <<Ev("logout", 0, 0, out = "", NoName),
                                       Returned("close", 0, out = "")>>
                                ELSE <<Returned("close", 0, FALSE)>>)

\* IMAPClient.close: the soft close of the session inside try/except, then
\* logout; MaildirClient.close does nothing
Client_close ==
    /\ session = "open"
    /\ call = Idle
    /\ session' = "out"
    /\ UNCHANGED <<pipeline, store, cur, it, locks, call>>
    /\ IF backend = "maildir"
       THEN /\ log' = log \o <<Called("close", 0), Returned("close", 0, TRUE)>>
            /\ UNCHANGED faults
       ELSE \E soft \in Failures({"close"}), out \in Failures({"logout"}) :
              /\ faults' = faults + (IF soft = "" THEN 0 ELSE 1) + (IF out = "" THEN 0 ELSE 1)
              /\ log' = log \o <<Called("close", 0),
                                 Ev("soft_close", 0, 0, soft = "", NoName),
                                 Ev("logout", 0, 0, out = "", NoName),
                                 Returned("close", 0, out = "")>>

ClientNext ==
    \/ get_mailbox_iterator
    \/ IMAPMailboxIterator_use
    \/ MaildirMailboxIterator_use
    \/ StartCall
    \/ IMAPClient_step
    \/ MaildirClient_locked_enter
    \/ MaildirClient_locked_body
    \/ MaildirClient_locked_leave
    \/ Client_expunge
    \/ Client_close
    \/ ExternalDeliver

ClientSpec == ClientInit /\ [][ClientNext]_vars

\* ------------------------------------------------------------------------
\* Properties
\* ------------------------------------------------------------------------
LogIdx == DOMAIN log
SameMsg(e, f) == e.pass = f.pass /\ e.id = f.id
ClientOps == {"create", "copy", "delete", "set_flagged", "set_read"}
Last == log[Len(log)]

\* the index of the first rule of rs that matches message, 0 when none does
FirstMatch(rs, message) ==
    LET hits == {k \in 1..Len(rs) : Rule_check(rs[k], message)}
    IN IF hits = {} THEN 0 ELSE CHOOSE k \in hits : \A j \in hits : k <= j

Count(P(_)) == Cardinality({i \in LogIdx : P(i)})

TypeOK ==
    /\ pc \in {"mailbox", "message", "rules", "report", "invoke", "delete", "expunge",
               "summary", "done", "aborted"}
    /\ num_errors + num_processed <= num_messages

\* C1: for every message the rules are checked in configured order, a rule
\* is checked only when every rule before it failed to match, the action
\* reported and invoked is that of the first matching rule, at most one
\* action is invoked for a message, and none when no rule matches.
C1_FirstMatchWins ==
    /\ \A i \in LogIdx : log[i].ev = "check" =>
          /\ i > 1
          /\ SameMsg(log[i - 1], log[i])
          /\ IF log[i].rule = 1 THEN log[i - 1].ev = "visit"
             ELSE /\ log[i - 1].ev = "check"
                  /\ log[i - 1].rule = log[i].rule - 1
                  /\ ~log[i - 1].ok
    /\ \A i \in LogIdx : log[i].ev \in {"report", "invoke"} \cup ClientOps =>
          \E j \in 1..(i - 1) :
             /\ log[j].ev = "check"
             /\ log[j].ok
             /\ SameMsg(log[j], log[i])
             /\ log[j].rule = log[i].rule
    /\ \A i, j \in LogIdx :
          (i < j /\ log[i].ev = "invoke" /\ log[j].ev = "invoke") => ~SameMsg(log[i], log[j])
    /\ pc \in {"report", "invoke", "delete"} =>
          /\ rule_idx = FirstMatch(mailbox_rules, cur.msg)
          /\ rule_idx # 0
          /\ action.data = Rule_get_action(mailbox_rules[rule_idx])

\* a message that matches both rules of its mailbox is about to have the
\* action of the first one invoked
C1_Witness ==
    /\ pc = "invoke"
    /\ rule_idx = 1
    /\ Len(mailbox_rules) = 2
    /\ Rule_check(mailbox_rules[2], cur.msg)
    /\ mailbox_rules[2].action # mailbox_rules[1].action

\* C2: under dry_run no action is ever invoked and no client operation is
\* issued for a message, and for every message whose matching rule yields
\* an action, report() of that action is called exactly once, right after
\* the action is built (unless an interrupt that no handler catches ends the
\* run at that very point).
C2_DryRunReportsOnly ==
    dry_run =>
       /\ \A i \in LogIdx : log[i].ev \notin {"invoke"} \cup ClientOps
       /\ pc \notin {"invoke", "delete"}
       /\ \A i \in LogIdx : log[i].ev = "factory" =>
             IF i = Len(log) THEN pc = "report"
             ELSE \/ log[i + 1].ev = "keyboard_interrupt"
                  \/ /\ log[i + 1].ev = "report"
                     /\ SameMsg(log[i], log[i + 1])
                     /\ Cardinality({j \in LogIdx : /\ log[j].ev = "report"
                                                   /\ SameMsg(log[i], log[j])}) = 1
       /\ \A i \in LogIdx : log[i].ev = "report" => i > 1 /\ log[i - 1].ev = "factory"

\* a dry run that reported the actions of two messages and completed
C2_Witness ==
    /\ dry_run
    /\ pc = "done"
    /\ Cardinality({i \in LogIdx : log[i].ev = "report" /\ log[i].ok}) >= 2

\* C3 (as claimed): under dry_run the backend stays as it was before the
\* run: the same mailboxes, holding the same messages with the same flags
\* and deletion marks.
C3_DryRunLeavesBackend == dry_run => boxes = init_boxes

Outcomes == {"processed", "error", "unmatched"}
VisitsIn(p) == Cardinality({i \in LogIdx : log[i].ev = "visit" /\ log[i].pass = p})
ExpungesIn(p) == Cardinality({i \in LogIdx : log[i].ev = "expunge" /\ log[i].pass = p})
\* the length the iterator of pass p reported
IterLen(p) == log[CHOOSE i \in LogIdx : log[i].ev = "iterator" /\ log[i].pass = p].id
InterruptSeen == \E i \in LogIdx : log[i].ev = "interrupted"

\* C4: with debug off a failing report() or client call of an action is
\* followed at once by exactly one counted error, never aborts the run, and
\* the loop goes on with the next message: every pass that is not cancelled
\* visits all messages of its iterator and every configured mailbox gets
\* its pass; the run aborts only on an exception raised outside the action
\* or on an interrupt that no handler catches.
C4_ErrorsIsolated ==
    ~debug =>
       /\ num_errors = Cardinality({i \in LogIdx : log[i].ev = "error"})
       /\ num_errors = Cardinality({i \in LogIdx : /\ log[i].ev \in {"report"} \cup ClientOps
                                                   /\ ~log[i].ok})
       /\ \A i \in LogIdx : (log[i].ev \in {"report"} \cup ClientOps /\ ~log[i].ok) =>
             /\ i < Len(log)
             /\ log[i + 1].ev = "error"
             /\ SameMsg(log[i], log[i + 1])
       /\ \A i \in LogIdx : log[i].ev = "error" =>
             IF i = Len(log)
             THEN /\ pc = "message" \/ (pc = "expunge" /\ pos > Len(snapshot))
                  /\ snapshot[pos - 1].id = log[i].id
             ELSE /\ log[i + 1].ev \in {"visit", "interrupted", "expunge",
                                      "keyboard_interrupt"}
                  /\ log[i + 1].pass = log[i].pass
                  /\ log[i + 1].ev = "visit" => log[i + 1].id # log[i].id
       /\ pc = "aborted" => Last.ev \in {"raise", "keyboard_interrupt"}
       /\ \A i \in LogIdx : log[i].ev = "expunge" =>
             \/ log[i - 1].ev = "interrupted"
             \/ VisitsIn(log[i].pass) = IterLen(log[i].pass)
       /\ (pc = "done" /\ ~InterruptSeen) =>
             \A p \in 1..Len(cfg.mailboxes) : ExpungesIn(p) = 1

\* a completed run without debug in which an action failed, a later message
\* of the same mailbox was processed and the next mailbox got its pass
C4_Witness ==
    /\ ~debug
    /\ pc = "done"
    /\ \E i, j, k \in LogIdx :
          /\ i < j /\ j < k
          /\ log[i].ev = "error"
          /\ log[j].ev = "processed" /\ log[j].pass = log[i].pass
          /\ log[k].ev = "visit" /\ log[k].pass = log[i].pass + 1

\* C5 (as claimed): every mailbox whose iterator was obtained is expunged
\* exactly once, after all of its messages have been visited and before the
\* iterator of the next mailbox is obtained; expunge() is never called while
\* messages of the mailbox are unvisited.
C5_ExpungeAfterAllMessages ==
    /\ \A i \in LogIdx : log[i].ev = "expunge" =>
          VisitsIn(log[i].pass) = IterLen(log[i].pass)
    /\ \A i \in LogIdx : log[i].ev = "iterator" =>
          /\ ExpungesIn(log[i].pass) <= 1
          /\ pc \in {"done", "aborted"} => ExpungesIn(log[i].pass) = 1
          /\ log[i].pass > 1 =>
                \E j \in 1..(i - 1) : log[j].ev = "expunge" /\ log[j].pass = log[i].pass - 1

\* C5 (amended): a mailbox whose message loop ends, by exhausting the
\* iterator or by the cancellation check at a message, is expunged exactly
\* once, after the action of every visited message has completed and before
\* the iterator of the next mailbox is obtained; after a cancellation the
\* expunge happens with messages still unvisited; a pass that an exception
\* aborts is not expunged.
C5_ExpungeAfterLoop ==
    /\ \A i \in LogIdx : log[i].ev = "expunge" =>
          /\ \E j \in 1..(i - 1) : log[j].ev = "iterator" /\ log[j].pass = log[i].pass
          /\ \/ /\ log[i - 1].ev = "interrupted"
                /\ log[i - 1].id # 0
                /\ log[i - 1].pass = log[i].pass
                /\ VisitsIn(log[i].pass) < IterLen(log[i].pass)
             \/ VisitsIn(log[i].pass) = IterLen(log[i].pass)
          /\ \A v \in 1..(i - 1) : (log[v].ev = "visit" /\ log[v].pass = log[i].pass) =>
                \E o \in (v + 1)..(i - 1) :
                   log[o].ev \in Outcomes /\ SameMsg(log[o], log[v])
          /\ \A j \in (i + 1)..Len(log) :
                log[j].ev \in {"summary", "interrupted"} \/ log[j].pass # log[i].pass
    /\ \A i \in LogIdx : log[i].ev = "iterator" =>
          /\ ExpungesIn(log[i].pass) <= 1
          /\ pc = "done" => ExpungesIn(log[i].pass) = 1
          /\ (pc = "aborted" /\ log[i].pass = mb) => ExpungesIn(log[i].pass) = 0
          /\ log[i].pass > 1 =>
                \E j \in 1..(i - 1) : log[j].ev = "expunge" /\ log[j].pass = log[i].pass - 1

\* a mailbox expunged after the cancellation check stopped its loop while a
\* message was still unvisited
C5_Witness ==
    \E i \in LogIdx :
       /\ log[i].ev = "expunge"
       /\ log[i - 1].ev = "interrupted"
       /\ VisitsIn(log[i].pass) >= 1
       /\ VisitsIn(log[i].pass) < IterLen(log[i].pass)

\* C6: the flag is checked before each mailbox and before each message: no
\* mailbox is opened and no message is visited once the flag is up; after a
\* checkpoint has seen the flag no rule is checked and no action is built,
\* reported or invoked; and a message that was visited keeps being handled
\* until its outcome, flag or no flag.
C6_AfterCheckpoint ==
    /\ \A i, j \in LogIdx : (i < j /\ log[i].ev = "interrupted") =>
          log[j].ev \in {"expunge", "interrupted", "summary"}
    /\ \A i \in LogIdx : log[i].ev = "visit" =>
          \/ \E o \in (i + 1)..Len(log) : log[o].ev \in Outcomes /\ SameMsg(log[o], log[i])
          \/ pc = "aborted"
          \/ /\ pc \in {"rules", "report", "invoke", "delete"}
             /\ log[i].pass = mb
             /\ log[i].id = cur.id

C6_Checkpoint ==
    (interrupted /\ progress_tracker = "progress") =>
       \A i \in (DOMAIN log') \ LogIdx : log'[i].ev \notin {"visit", "iterator"}

C6_CancellationStops == [](C6_AfterCheckpoint) /\ [][C6_Checkpoint]_vars

\* the flag went up while the action of a message was being handled: the
\* action was completed, the next checkpoint saw the flag, and the run ended
\* with a mailbox left to do
C6_Witness ==
    /\ pc = "done"
    /\ Len(cfg.mailboxes) = 2
    /\ \E i \in LogIdx :
          /\ log[i].ev = "interrupted"
          /\ log[i].pass = 1
          /\ log[i].id # 0
          /\ log[i - 1].ev = "processed"
          /\ \E j \in 1..i : log[j].ev = "invoke" /\ SameMsg(log[j], log[i - 1])

Undeleted(s) == SelectSeq(s, LAMBDA m : DELETED \notin m.flags)
MoveInvoked(e) == e.ev = "invoke" /\ e.arg[1] \in MoveFamily
PassName(p) == cfg.mailboxes[p].name

\* C7 as stated: once a checkpoint has seen the flag no step changes a
\* mailbox.
C7_NothingAfterCancel == [][InterruptSeen => boxes' = boxes]_vars

C7_AfterCancelStep ==
    InterruptSeen =>
       /\ \A i \in (DOMAIN log') \ LogIdx : log'[i].ev \notin ClientOps
       /\ \/ boxes' = boxes
          \/ /\ backend = "imap"
             /\ Last.ev = "interrupted"
             /\ Last.id # 0
             /\ log'[Len(log')].ev = "expunge"
             /\ DOMAIN boxes' = DOMAIN boxes
             /\ \A n \in DOMAIN boxes :
                   boxes'[n] = IF n = PassName(Last.pass) THEN Undeleted(boxes[n])
                               ELSE boxes[n]

\* C7 (amended): once a checkpoint has seen the flag no copy, delete, flag
\* or create is issued, and the only step that changes a mailbox is the
\* expunge that follows a checkpoint before a message: on the remote backend
\* it removes the messages of the current mailbox that carry the deletion
\* marker, and nothing else changes.
C7_OnlyExpungeAfterCancel == [][C7_AfterCancelStep]_vars

\* a move was completed, the checkpoint before the next message saw the
\* flag, and the expunge that followed removed the moved message
C7_Witness ==
    /\ backend = "imap"
    /\ \E i \in LogIdx :
          /\ log[i].ev = "interrupted"
          /\ log[i].id # 0
          /\ log[i].pass = 1
          /\ i < Len(log)
          /\ log[i + 1].ev = "expunge"
          /\ \E j \in 1..i :
                /\ log[j].ev = "delete"
                /\ log[j].ok
                /\ log[j].pass = 1
                /\ HasId(init_boxes[INBOX], log[j].id)
                /\ ~HasId(boxes[INBOX], log[j].id)

C8_Order ==
    /\ \A j \in LogIdx :
          (/\ log[j].ev = "delete"
           /\ \E i \in 1..j : MoveInvoked(log[i]) /\ SameMsg(log[i], log[j])) =>
             /\ j > 1
             /\ log[j - 1].ev = "copy"
             /\ log[j - 1].ok
             /\ SameMsg(log[j - 1], log[j])
    /\ \A i \in LogIdx :
          (log[i].ev \in {"create", "copy"} /\ ~log[i].ok) =>
             /\ i < Len(log)
             /\ log[i + 1].ev = "error"
             /\ SameMsg(log[i + 1], log[i])
    /\ \A i \in LogIdx :
          (MoveInvoked(log[i]) /\ log[i].pass = 1) =>
             \/ HasId(boxes[PassName(1)], log[i].id)
             \/ \E c \in LogIdx :
                   /\ log[c].ev = "copy"
                   /\ log[c].ok
                   /\ SameMsg(log[c], log[i])
                   /\ log[c].arg \in DOMAIN boxes
                   /\ \E k \in 1..Len(boxes[log[c].arg]) :
                         boxes[log[c].arg][k].msg =
                            ById(init_boxes[PassName(1)], log[i].id).msg

C8_CopyFailed ==
    (pc = "invoke" /\ action.name \in MoveFamily /\ pc' # "delete") =>
       /\ mailbox_name \in DOMAIN boxes'
       /\ boxes'[mailbox_name] = boxes[mailbox_name]

\* C8: a move copies and then deletes: the delete of a move directly follows
\* the successful copy of the same message, a failed copy (or a failed
\* creation of the destination) is followed by the error and by no delete,
\* a message a move was invoked for is in its source mailbox or in the
\* destination of its copy, and when the copy fails the source mailbox is
\* as it was.
C8_MoveCopiesThenDeletes == [](C8_Order) /\ [][C8_CopyFailed]_vars

\* one move failed in its copy and another one copied, deleted and was
\* expunged from the source
C8_Witness ==
    /\ \E i \in LogIdx : log[i].ev = "copy" /\ ~log[i].ok /\ log[i].pass = 1
    /\ \E j \in LogIdx :
          /\ log[j].ev = "delete"
          /\ log[j].ok
          /\ log[j].pass = 1
          /\ log[j - 1].ev = "copy"
          /\ ~HasId(boxes[INBOX], log[j].id)

\* the message at index k of the iterator of the current pass
PassMsg(k) ==
    IF backend = "imap" THEN ById(boxes[selected], snapshot[k].id).msg
    ELSE snapshot[k].msg

MovesIn(p) == Cardinality({i \in LogIdx : MoveInvoked(log[i]) /\ log[i].pass = p})

\* the first rule that matches m carries a move action
MoveFirst(m) ==
    LET k == FirstMatch(mailbox_rules, m)
    IN k # 0 /\ Rule_get_action(mailbox_rules[k]).name \in MoveFamily

\* report() of the action of the first matching rule returns for m
Reported(m) ==
    LET k == FirstMatch(mailbox_rules, m)
    IN Action_report_ok(Action_factory(Rule_get_action(mailbox_rules[k]), cfg), m)

\* no action is built, reported or invoked and no client operation is
\* issued for a message that matched no rule
NoOpForUnmatched ==
    \A i, j \in LogIdx : (log[i].ev = "unmatched" /\ SameMsg(log[j], log[i])) =>
       log[j].ev \notin ClientOps \cup {"factory", "report", "invoke", "processed", "error"}

C9_StateAll ==
    /\ NoOpForUnmatched
    /\ \A i \in LogIdx : (log[i].ev = "unmatched" /\ log[i].pass = 1) =>
          /\ HasId(boxes[PassName(1)], log[i].id)
          /\ ById(boxes[PassName(1)], log[i].id) =
                ById(init_boxes[PassName(1)], log[i].id)
    /\ pc = "expunge" =>
          MovesIn(mb) = Cardinality({k \in 1..Len(snapshot) : MoveFirst(PassMsg(k))})

C9_StepAll ==
    \A i \in LogIdx : log[i].ev = "unmatched" =>
       LET src == PassName(log[i].pass)
       IN HasId(boxes[src], log[i].id) =>
             /\ HasId(boxes'[src], log[i].id)
             /\ ById(boxes'[src], log[i].id) = ById(boxes[src], log[i].id)

\* C9 as stated: a message that matched no rule stays in its mailbox as it
\* was, whatever it carried, and a pass issues as many moves as its mailbox
\* has messages whose first matching rule is a move.
C9_UnmatchedUntouchedAlways == [](C9_StateAll) /\ [][C9_StepAll]_vars

\* the message carried the deletion marker of the remote backend
Marked(m) == backend = "imap" /\ DELETED \in m.flags

C9_State ==
    /\ NoOpForUnmatched
    /\ \A i \in LogIdx :
          (/\ log[i].ev = "unmatched"
           /\ log[i].pass = 1
           /\ ~Marked(ById(init_boxes[PassName(1)], log[i].id))) =>
             /\ HasId(boxes[PassName(1)], log[i].id)
             /\ ById(boxes[PassName(1)], log[i].id) =
                   ById(init_boxes[PassName(1)], log[i].id)
    /\ pc \in {"message", "expunge"} =>
          MovesIn(mb) =
             IF dry_run THEN 0
             ELSE Cardinality({k \in 1..(pos - 1) :
                                  MoveFirst(PassMsg(k)) /\ Reported(PassMsg(k))})

C9_Step ==
    \A i \in LogIdx : log[i].ev = "unmatched" =>
       LET src == PassName(log[i].pass)
       IN (HasId(boxes[src], log[i].id) /\ ~Marked(ById(boxes[src], log[i].id))) =>
             /\ HasId(boxes'[src], log[i].id)
             /\ ById(boxes'[src], log[i].id) = ById(boxes[src], log[i].id)

\* C9 (amended): no client operation is issued for a message that matched
\* no rule, and unless it already carried the deletion marker of the remote
\* backend it stays in its mailbox, flags unchanged, through the pass, its
\* expunge and the rest of the run; between two messages and at the expunge
\* the moves issued in the pass are none in a dry run and otherwise as many
\* as the messages visited so far whose first matching rule is a move and
\* whose report returned.
C9_UnmatchedUntouched == [](C9_State) /\ [][C9_Step]_vars

\* a pass over two messages, one moved, deleted and expunged, the other
\* matched by no rule and still in the mailbox
C9_Witness ==
    /\ mb = 2
    /\ pc = "mailbox"
    /\ MovesIn(1) = 1
    /\ Len(init_boxes[INBOX]) = 2
    /\ Len(boxes[INBOX]) = 1
    /\ \E i \in LogIdx :
          /\ log[i].ev = "unmatched"
          /\ log[i].pass = 1
          /\ HasId(boxes[INBOX], log[i].id)
    /\ \E j \in LogIdx : log[j].ev = "delete" /\ log[j].ok /\ log[j].pass = 1

\* C10: under debug an error is the last thing process_rules does: the
\* exception leaves process_rules, so that no message or rule is checked and
\* no action is built, reported or invoked after it, in this mailbox or in
\* a later one.
C10_DebugAborts ==
    debug => \A i \in LogIdx : log[i].ev = "error" => (i = Len(log) /\ pc = "aborted")

\* under debug a client operation failed while a message and a mailbox
\* were still to come
C10_Witness ==
    /\ debug
    /\ pc = "aborted"
    /\ Last.ev = "error"
    /\ log[Len(log) - 1].ev \in ClientOps
    /\ pos < Len(snapshot)
    /\ mb < Len(cfg.mailboxes)

\* C11: when process_rules has ended, whether it returned or an exception
\* left it, the summary with the three counters has been emitted.
C11_SummaryAlways ==
    pc \in {"done", "aborted"} =>
       /\ Last.ev = "summary"
       /\ Last.pass = num_messages
       /\ Last.id = num_processed
       /\ Last.rule = num_errors

\* C12: an interrupt never ends an action midway: a move whose copy
\* returned is either about to attempt its delete or has attempted it.
C12_InterruptNeverAborts ==
    \A i \in LogIdx : (log[i].ev = "copy" /\ log[i].ok) =>
       \/ i = Len(log) /\ pc = "delete" /\ cur.id = log[i].id /\ mb = log[i].pass
       \/ i < Len(log) /\ log[i + 1].ev = "delete" /\ SameMsg(log[i + 1], log[i])

\* the step appended an expunge to the history
Expunged == Len(log') = Len(log) + 1 /\ log'[Len(log')].ev = "expunge"

C13_State ==
    backend = "imap" =>
       \A i \in LogIdx : (log[i].ev = "delete" /\ log[i].ok) =>
          \/ \E j \in (i + 1)..Len(log) : log[j].ev = "expunge" /\ log[j].arg = log[i].arg
          \/ /\ HasId(boxes[log[i].arg], log[i].id)
             /\ DELETED \in ById(boxes[log[i].arg], log[i].id).flags
             /\ \A j \in (i + 1)..Len(log) :
                   (log[j].ev = "search" /\ log[j].arg = log[i].arg) =>
                      \E k \in 1..Len(it.items) : it.items[k] = log[i].id

C13_Step ==
    backend = "imap" =>
       /\ \A n \in DOMAIN boxes : \A k \in 1..Len(boxes[n]) :
             ~HasId(boxes'[n], boxes[n][k].id) =>
                /\ Expunged
                /\ n = selected
                /\ DELETED \in boxes[n][k].flags
       /\ (Expunged /\ selected # NoName) =>
             \A k \in 1..Len(boxes'[selected]) : DELETED \notin boxes'[selected][k].flags

\* C13: on the remote backend a message that delete_message (alone or as
\* the second half of move_message) was applied to stays in its mailbox with
\* the deletion marker, and in the result of a later search, until expunge
\* is called for that mailbox; a message leaves a mailbox only in an expunge
\* step, only from the selected folder and only if it carries the marker,
\* and expunge leaves no marked message in the selected folder.
C13_DeletionDeferred == [](C13_State) /\ [][C13_Step]_vars

\* a message was deleted, a search made afterwards lists it, and it is in
\* its mailbox with the marker
C13_Witness ==
    /\ backend = "imap"
    /\ \E i, j \in LogIdx :
          /\ i < j
          /\ log[i].ev = "delete"
          /\ log[i].ok
          /\ log[j].ev = "search"
          /\ log[j].arg = log[i].arg
          /\ HasId(boxes[log[i].arg], log[i].id)
          /\ \A e \in LogIdx : log[e].ev # "expunge"

\* the entries the step appended to the history
NewIdx == (Len(log) + 1)..Len(log')

\* the name set _ensure_mailbox tests the destination against
CachedNames == IF mbox_names.loaded THEN mbox_names.names ELSE DOMAIN boxes

C14_State ==
    backend = "imap" =>
       /\ \A i, j \in LogIdx : (log[i].ev = "list" /\ log[j].ev = "list") => i = j
       /\ \A i, j \in LogIdx :
             (log[i].ev = "list" /\ log[j].ev \in {"create", "copy"}) => i < j
       /\ mbox_names.loaded <=> \E i \in LogIdx : log[i].ev = "list"
       /\ \A i, j \in LogIdx :
             (/\ log[i].ev = "create" /\ log[i].ok
              /\ log[j].ev = "create" /\ log[j].ok
              /\ log[i].arg = log[j].arg) => i = j
       /\ \A i \in LogIdx :
             (log[i].ev = "create" /\ ~log[i].ok /\ i < Len(log)) =>
                log[i + 1].ev \notin {"copy", "delete"}

C14_Step ==
    backend = "imap" =>
       /\ mbox_names.loaded =>
             mbox_names'.loaded /\ mbox_names.names \subseteq mbox_names'.names
       /\ \A k \in NewIdx :
             /\ log'[k].ev \in {"create", "copy"} =>
                  /\ (\E c \in NewIdx : log'[c].ev = "create" /\ log'[c].arg = log'[k].arg)
                        <=> log'[k].arg \notin CachedNames
                  /\ (\E l \in NewIdx : log'[l].ev = "list") <=> ~mbox_names.loaded
                  /\ mbox_names'.loaded
             /\ (log'[k].ev = "create" /\ log'[k].ok) =>
                  /\ mbox_names'.names = CachedNames \cup {log'[k].arg}
                  /\ log'[k].arg \in DOMAIN boxes'
             /\ (log'[k].ev = "create" /\ ~log'[k].ok) =>
                  /\ mbox_names'.names = CachedNames
                  /\ \A c \in NewIdx : log'[c].ev # "copy"
             /\ (log'[k].ev = "copy" /\ \A c \in NewIdx : log'[c].ev # "create") =>
                  mbox_names'.names = CachedNames

Searches == {i \in LogIdx : log[i].ev = "search"}

\* the step is a len() or an iteration of the iterator
UseStep == \E k \in NewIdx : log'[k].ev = "call" /\ log'[k].arg = <<"use">>

C15_State ==
    backend = "imap" =>
       /\ Cardinality(Searches) <= 1
       /\ it.queries = Cardinality(Searches)
       /\ it.loaded <=> Searches # {}
       /\ \A i \in Searches :
             /\ log[i].arg = it.name
             /\ log[i].id = Len(it.items)
             /\ \E g \in 1..(i - 1) : log[g].ev = "get_iterator"
             /\ \A c \in (i + 1)..Len(log) :
                   (log[c].ev = "call" /\ log[c].arg = <<"use">>) =>
                      /\ c < Len(log)
                      /\ log[c + 1] = Returned("use", Len(it.items), TRUE)

C15_Step ==
    backend = "imap" =>
       /\ (\E k \in NewIdx : log'[k].ev = "get_iterator") =>
             /\ Len(log') = Len(log) + 1
             /\ ~it'.loaded
             /\ it'.queries = 0
             /\ selected' = selected
       /\ (UseStep /\ ~it.loaded /\ it.name \in DOMAIN boxes) =>
             /\ Cardinality({k \in NewIdx : log'[k].ev = "search"}) = 1
             /\ selected' = it.name
             /\ it'.loaded
             /\ it'.items = Ids(boxes[it.name])
       /\ (UseStep /\ it.loaded) =>
             /\ \A k \in NewIdx : log'[k].ev # "search"
             /\ selected' = selected
       /\ it.loaded => it' = it

C16_EagerSnapshot ==
    (backend = "maildir" /\ it.made) =>
       /\ it.loaded
       /\ it.items = it.at_creation
       /\ call.op = "use" => locks = {}

\* the history of the client alone, without what other processes did
IsOwn(e) == e.ev # "deliver"
OwnLog == SelectSeq(log, IsOwn)

\* the bodies of the _locked scopes
ScopeBodies == {"copy", "delete", "set_flagged", "set_read", "load"}

\* the step is a delivery by another process
Delivered == Len(log') = Len(log) + 1 /\ log'[Len(log')].ev = "deliver"

C17_State ==
    backend = "maildir" =>
       /\ locks = IF call.stage \in {"body", "leave"} THEN {scope_mailbox} ELSE {}
       /\ call = Idle => locks = {}
       /\ \A i \in DOMAIN OwnLog :
             /\ OwnLog[i].ev = "lock" =>
                  /\ i < Len(OwnLog) =>
                        /\ OwnLog[i + 1].ev \in ScopeBodies
                        /\ OwnLog[i + 1].arg = OwnLog[i].arg
                  /\ i + 1 < Len(OwnLog) =>
                        /\ OwnLog[i + 2].ev = "unlock"
                        /\ OwnLog[i + 2].arg = OwnLog[i].arg
             /\ OwnLog[i].ev \in ScopeBodies =>
                  /\ i > 1
                  /\ OwnLog[i - 1].ev = "lock"
             /\ (OwnLog[i].ev = "return" /\ OwnLog[i].arg # <<"close">>
                     /\ ~(OwnLog[i].arg = <<"use">> /\ OwnLog[i - 1].ev = "call")) =>
                  OwnLog[i - 1].ev = "unlock"

C17_Step ==
    (backend = "maildir" /\ ~Delivered) =>
       \A n \in DOMAIN boxes :
          boxes'[n] # boxes[n] => (call.stage = "body" /\ n = scope_mailbox /\ locks = {n})

\* C17: a method of the local client holds the lock of exactly the one
\* mailbox it works on, from before its mutation until it has flushed and
\* closed the mailbox, and has released it when it returns or raises; the
\* client changes no mailbox other than the locked one and holds no lock
\* while no method is running.
C17_OneLockPerOperation == [](C17_State) /\ [][C17_Step]_vars

\* a mutation raised inside the scope, the lock was released and the method
\* raised to its caller
C17_Witness ==
    /\ backend = "maildir"
    /\ call = Idle
    /\ locks = {}
    /\ Len(log) >= 3
    /\ log[Len(log)].ev = "return"
    /\ ~log[Len(log)].ok
    /\ log[Len(log) - 1].ev = "unlock"
    /\ log[Len(log) - 2].ev \in {"copy", "delete", "set_flagged", "set_read"}
    /\ ~log[Len(log) - 2].ok

\* a move_message of the local client between two mailboxes is running
CrossMove == backend = "maildir" /\ call.op = "move" /\ call.src # call.dest

\* the message of the running call is in the mailbox, by content
HasCopy(box) == \E k \in 1..Len(box) : box[k].msg = cur.msg

C18_State ==
    CrossMove =>
       /\ ~({call.src, call.dest} \subseteq locks)
       /\ call.phase = "copy" => call.src \notin locks
       /\ call.phase = "delete" => call.dest \notin locks
       /\ (call.phase = "delete" /\ call.stage = "enter") =>
             /\ locks = {}
             /\ HasId(boxes[call.src], cur.id)
             /\ HasCopy(boxes[call.dest])
             /\ Len(boxes[call.dest]) > Len(BoxOf(call.before, call.dest))

C18_Step ==
    CrossMove =>
       /\ (call.src \notin locks /\ call.src \in locks') =>
             /\ call.phase = "delete"
             /\ \E i, j \in LogIdx :
                   /\ i < j
                   /\ log[i].ev = "copy" /\ log[i].ok /\ log[i].arg = call.dest
                   /\ log[j].ev = "unlock" /\ log[j].arg = call.dest
       /\ (call.dest \notin locks /\ call.dest \in locks') => call.phase = "copy"

\* C18: while the local client moves a message between two mailboxes it
\* never holds both locks: the destination is locked for the copy and
\* released before the source is locked for the delete; between the two
\* scopes no lock is held and the message is in both mailboxes.
C18_MoveTwoScopes == [](C18_State) /\ [][C18_Step]_vars

\* between the two scopes of a move from one mailbox to another: no lock,
\* the message in the source and its copy in the destination
C18_Witness ==
    /\ CrossMove
    /\ call.phase = "delete"
    /\ call.stage = "enter"
    /\ locks = {}
    /\ HasId(boxes[call.src], cur.id)
    /\ HasCopy(boxes[call.dest])

\* the message is in the mailbox as it is in the record m
Holds(box, m) == \E k \in 1..Len(box) : box[k] = m

\* the step is the return of a move_message of the local client
MoveReturns ==
    /\ backend = "maildir"
    /\ call.op = "move"
    /\ call' = Idle
    /\ log'[Len(log')] = Returned("move", cur.id, TRUE)

C19_Step ==
    MoveReturns =>
       LET src == call.src
           dest == call.dest
           was == call.before
       IN /\ HasId(was[src], cur.id)
          /\ \E k \in 1..Len(boxes'[dest]) :
                /\ boxes'[dest][k].msg = cur.msg
                /\ ~HasId(BoxOf(was, dest), boxes'[dest][k].id) \/ src = dest
                /\ boxes'[dest][k].id # cur.id \/ src # dest
          /\ ~HasId(boxes'[src], cur.id)
          /\ \A n \in DOMAIN was : \A k \in 1..Len(was[n]) :
                (n = src /\ was[n][k].id = cur.id) \/ Holds(boxes'[n], was[n][k])
          /\ \A n \in DOMAIN boxes' : \A k \in 1..Len(boxes'[n]) :
                \/ Holds(BoxOf(was, n), boxes'[n][k])
                \/ n = dest /\ boxes'[n][k].msg = cur.msg
                \/ \E d \in LogIdx : /\ log[d].ev = "deliver"
                                     /\ log[d].arg = n
                                     /\ log[d].id = boxes'[n][k].id

\* C19: when move_message of the local client returns, the destination
\* holds a message with the content of the moved one that it did not hold
\* before, the source holds no message with the moved ID, and every other
\* message that the mailboxes held before the call is still there,
\* unchanged; nothing else was added by the client.
C19_MoveResult == [][C19_Step]_vars

\* a move between two different mailboxes has returned
C19_Witness ==
    /\ backend = "maildir"
    /\ call = Idle
    /\ Len(log) >= 1
    /\ log[Len(log)].ev = "return"
    /\ log[Len(log)].arg = <<"move">>
    /\ log[Len(log)].ok
    /\ \E i, j \in LogIdx :
          /\ i < j
          /\ log[i].ev = "copy"
          /\ log[j].ev = "delete"
          /\ log[i].arg # log[j].arg
          /\ ~HasId(boxes[log[j].arg], log[j].id)

\* C20: close() of the remote client attempts the soft close and then,
\* whether or not the soft close raised, attempts logout exactly once;
\* close() raises only if logout raises, never because of the soft close.
C20_CloseTolerant ==
    backend = "imap" =>
       /\ Cardinality({i \in LogIdx : log[i].ev = "logout"})
             = Cardinality({i \in LogIdx : log[i].ev = "soft_close"})
       /\ \A i \in LogIdx :
             /\ log[i] = Called("close", 0) =>
                  /\ i + 3 = Len(log)
                  /\ log[i + 1].ev = "soft_close"
             /\ log[i].ev = "soft_close" =>
                  /\ i + 2 = Len(log)
                  /\ log[i + 1].ev = "logout"
                  /\ log[i + 2] = Returned("close", 0, log[i + 1].ok)

\* the soft close raised, logout was called and close() returned
C20_Witness ==
    /\ backend = "imap"
    /\ session = "out"
    /\ \E i \in LogIdx :
          /\ log[i].ev = "soft_close"
          /\ ~log[i].ok
          /\ log[i + 1].ev = "logout"
          /\ log[i + 1].ok
          /\ log[i + 2] = Returned("close", 0, TRUE)

\* the rule the entry e of the history is about
RuleOf(e) == cfg.mailboxes[e.pass].rules[e.rule]

\* the action description of a rule names no action of the lookup table
UnknownAction(rule) == Rule_get_action(rule).name \notin ActionNames

\* C21: an action description whose name is unknown or missing raises when
\* a message matches its rule and only then: the match is followed at once
\* by the exception, which ends the run; every such exception follows a
\* match of that rule, so a run in which no message matches the rule is
\* not ended by it.
C21_UnknownActionOnMatch ==
    /\ \A i \in LogIdx :
          (log[i].ev = "check" /\ log[i].ok /\ UnknownAction(RuleOf(log[i]))) =>
             /\ i + 1 = Len(log)
             /\ log[i + 1].ev = "raise"
             /\ SameMsg(log[i], log[i + 1])
             /\ pc = "aborted"
    /\ \A i \in LogIdx :
          (log[i].ev = "raise" /\ log[i].rule > 0) =>
             /\ i > 1
             /\ log[i - 1].ev = "check"
             /\ log[i - 1].ok
             /\ SameMsg(log[i - 1], log[i])
             /\ log[i - 1].rule = log[i].rule
             /\ UnknownAction(RuleOf(log[i]))
    /\ \A i \in LogIdx :
          (log[i].ev = "check" /\ ~log[i].ok) =>
             (i = Len(log) => pc = "rules")

\* a run whose first mailbox has a rule with an unknown action name has
\* completed: the rule was checked for a message and did not match it
C21_Witness ==
    /\ pc = "done"
    /\ Last.ev = "summary"
    /\ \E i \in LogIdx :
          /\ log[i].ev = "check"
          /\ ~log[i].ok
          /\ UnknownAction(RuleOf(log[i]))

\* ------------------------------------------------------------------------
\* Runs of process_rules over configurations that hold errors: rule
\* descriptions rules.factory rejects and action descriptions whose
\* constructor raises
\* ------------------------------------------------------------------------
SpamMatcher == << [name |-> "subject", op |-> "substring", pattern |-> <<"s", "a">>] >>

\* trash without dest-mailbox: the constructor needs the global trash-mailbox
RuleSpamTrash ==
    HeaderRule(SpamMatcher, [name |-> "trash", dest |-> NoName, base |-> NoName])

\* sort without dest-mailbox-base
RuleSpamSort ==
    HeaderRule(SpamMatcher, [name |-> "sort", dest |-> NoName, base |-> NoName])

\* a description without the key of any rule
RuleBadKind ==
    [kind |-> "no-such-rule", name |-> "", matchers |-> <<>>, rules |-> <<>>,
     action |-> [name |-> "flag", dest |-> NoName, base |-> NoName]]

\* a header matcher without substring, regex or value
RuleBadMatcher ==
    HeaderRule(<< [name |-> "subject", op |-> "", pattern |-> <<>>] >>,
               [name |-> "flag", dest |-> NoName, base |-> NoName])

\* a regex re.compile rejects
RuleBadRegex ==
    HeaderRule(<< [name |-> "subject", op |-> "regex", pattern |-> <<"(", "a">>] >>,
               [name |-> "flag", dest |-> NoName, base |-> NoName])

\* an invalid description below an or
RuleOrBadKind ==
    [kind |-> "or", name |-> "", matchers |-> <<>>, rules |-> <<RuleDatedFlag, RuleBadKind>>,
     action |-> [name |-> "flag", dest |-> NoName, base |-> NoName]]

\* an and below an or, each sub-rule with an action of its own
RuleAndNested ==
    [kind |-> "and", name |-> "", matchers |-> <<>>,
     rules |-> <<RuleSpamTrash, RuleDatedFlag>>,
     action |-> [name |-> "delete", dest |-> NoName, base |-> NoName]]

RuleOrNested ==
    [kind |-> "or", name |-> "", matchers |-> <<>>,
     rules |-> <<RuleAndNested, RuleSpamSort>>,
     action |-> [name |-> "mark_read", dest |-> NoName, base |-> NoName]]

ConfigRuleSet ==
    {RuleSpamTrash, RuleSpamSort, RuleDatedFlag, RuleBadKind, RuleBadMatcher, RuleBadRegex,
     RuleOrNested}

ConfigRuleLists ==
    {q \in SeqsUpTo(ConfigRuleSet, MaxRules) :
        \A i, j \in 1..Len(q) : i # j => q[i] # q[j]}

\* INBOX with a rule list, alone or followed by Archive with a rule list
\* that holds an invalid description; the global trash-mailbox may be missing
ErrorConfigs ==
    {[mailboxes |-> <<[name |-> INBOX, rules |-> rl]>> \o more, trash_mailbox |-> t] :
        rl \in ConfigRuleLists,
        more \in {<<>>, <<[name |-> Archive, rules |-> <<RuleDatedFlag, RuleOrBadKind>>]>>,
                  <<[name |-> Archive, rules |-> <<RuleBadRegex>>]>>},
        t \in {NoName, TrashBox}}

ConfigInboxes ==
    {[i \in 1..Len(q) |-> [id |-> i, msg |-> q[i], flags |-> {}]] :
        q \in SeqsUpTo({MsgSpam, MsgPlain}, MaxMsgs)}

ConfigInit ==
    /\ backend \in {"imap", "maildir"}
    /\ cfg \in ErrorConfigs
    /\ dry_run = FALSE
    /\ debug = FALSE
    /\ progress_tracker \in {"progress", "null"}
    /\ init_boxes \in {(INBOX :> inbox) : inbox \in ConfigInboxes}
    /\ boxes = init_boxes
    /\ uidnext = [n \in DOMAIN init_boxes |-> Len(init_boxes[n]) + 1]
    /\ selected = NoName
    /\ mbox_names = [loaded |-> FALSE, names |-> {}]
    /\ pc = "mailbox"
    /\ mb = 1
    /\ snapshot = <<>>
    /\ pos = 1
    /\ cur = NoMsg
    /\ rule_idx = 1
    /\ action = NoActionObj
    /\ num_messages = 0
    /\ num_processed = 0
    /\ num_errors = 0
    /\ stats = NoStats
    /\ interrupted = FALSE
    /\ faults = 0
    /\ log = <<>>
    /\ it = NoIterator
    /\ locks = {}
    /\ call = Idle
    /\ session = "open"

ConfigSpec == ConfigInit /\ [][Next]_vars

\* the constructor of the rule's action raises: trash without a destination
\* of its own or a global one, a sort without dest-mailbox-base
BadAction(rule) ==
    LET data == Rule_get_action(rule)
    IN \/ data.name = "trash" /\ data.dest = NoName /\ cfg.trash_mailbox = NoName
       \/ data.name \in SortFamily /\ data.base = NoName

Undisturbed ==
    /\ ~interrupted
    /\ \A i \in LogIdx : log[i].ev # "keyboard_interrupt"

\* C22 as stated: a configuration error raised while the action of a
\* matched message is constructed fails that message only, so once the run
\* is over every message of that mailbox has been visited.
C22_ConfigErrorIsolated ==
    \A i \in LogIdx :
       (/\ log[i].ev = "raise"
        /\ log[i].rule > 0
        /\ BadAction(RuleOf(log[i]))
        /\ pc \in {"done", "aborted"}
        /\ Undisturbed) =>
          VisitsIn(log[i].pass) = IterLen(log[i].pass)

\* C22: a configuration error of an action's constructor is raised when a
\* message matches the rule and only then, and it ends the run: the match is
\* followed at once by the exception leaving process_rules, the messages
\* visited before it have their outcome, and a message that does not match
\* the rule leaves the run going.
C22_ConfigErrorOnMatch ==
    /\ \A i \in LogIdx :
          (log[i].ev = "check" /\ log[i].ok /\ BadAction(RuleOf(log[i]))) =>
             /\ i + 1 = Len(log)
             /\ log[i + 1].ev = "raise"
             /\ SameMsg(log[i], log[i + 1])
             /\ log[i + 1].rule = log[i].rule
             /\ pc = "aborted"
    /\ \A i \in LogIdx :
          (log[i].ev = "raise" /\ log[i].rule > 0) =>
             /\ BadAction(RuleOf(log[i]))
             /\ \A j \in 1..(i - 1) :
                   (log[j].ev = "visit" /\ ~SameMsg(log[j], log[i])) =>
                      \E k \in j..i : log[k].ev \in Outcomes /\ SameMsg(log[j], log[k])
    /\ \A i \in LogIdx :
          (log[i].ev = "check" /\ ~log[i].ok /\ BadAction(RuleOf(log[i]))) =>
             (i = Len(log) => pc = "rules")

\* the second message of a mailbox matched a rule whose action cannot be
\* constructed, after the first one had been processed
C22_Witness ==
    /\ pc = "aborted"
    /\ Last.ev = "raise"
    /\ Last.rule > 0
    /\ BadAction(RuleOf(Last))
    /\ \E j \in LogIdx :
          /\ log[j].ev = "processed"
          /\ log[j].pass = Last.pass
          /\ log[j].id # Last.id

\* the rule list of the p-th configured mailbox holds an invalid description
BadRules(p) ==
    \E i \in 1..Len(cfg.mailboxes[p].rules) : ~Rule_factory_ok(cfg.mailboxes[p].rules[i])

\* C23: a mailbox whose rule list holds an invalid description is never
\* opened: process_rules fails at it, no iterator is obtained for it, no
\* message of it is visited, checked or acted on, the local backend does
\* not come to hold it, and the run never gets past it.
C23_BadRuleFailsFast ==
    \A p \in 1..Len(cfg.mailboxes) :
       BadRules(p) =>
          /\ mb <= p
          /\ \A i \in LogIdx :
                (log[i].pass = p /\ log[i].ev # "summary") =>
                   /\ log[i].ev \in {"raise", "interrupted", "keyboard_interrupt"}
                   /\ log[i].ev = "raise" =>
                         /\ i = Len(log)
                         /\ pc = "aborted"
                         /\ log[i].rule = 0
                         /\ log[i].id = 0
          /\ (mb = p /\ Undisturbed) => pc \in {"mailbox", "aborted"}
          /\ PassName(p) \notin DOMAIN init_boxes => PassName(p) \notin DOMAIN boxes
          /\ selected # PassName(p)

\* the run went through its first mailbox and failed at the second one,
\* whose rule list holds an invalid description
C23_Witness ==
    /\ pc = "aborted"
    /\ Last.ev = "raise"
    /\ Last.pass = 2
    /\ BadRules(2)
    /\ ~BadRules(1)
    /\ \E i \in LogIdx : log[i].ev = "visit" /\ log[i].pass = 1

\* ------------------------------------------------------------------------
\* The rules and the actions called directly (as test_rules.py and
\* test_actions.py do): one rule description and its action description,
\* one message in INBOX; the rule is checked, the action is built, and
\* report() and invoke() are called on it
\* ------------------------------------------------------------------------
Txt_ab == <<"a", "b">>
Addr == <<"j", "o", "@", "x">>

UnitMessages ==
    {<< <<"Subject", Txt_ab>>, <<"To", Addr>>, <<"Date", <<"2023", 3, 0, "+0000">> >> >>,
     << <<"Subject", Txt_ab>>, <<"To", Addr>> >>,
     << <<"Subject", Txt_ab>>, <<"To", <<"j", "o">> >>, <<"Date", <<"2023">> >> >>,
     << <<"Subject", Txt_ab>>, <<"List-Id", <<"<", "l", "i", ".", "x", ">">> >>,
        <<"Date", <<"2023", 3, 1, "+0200">> >> >>,
     << <<"Subject", Txt_ab>>, <<"List-Id", <<"l", "i", ".", "x">> >>, <<"Date", <<>> >> >>,
     << <<"Subject", Txt_ab>>, <<"To", Addr>>, <<"Date", <<"x">> >> >>,
     << <<"Subject", Txt_ab>>, <<"cc", Addr>>, <<"Date", <<"2023", 3, 0, "-0500">> >> >>,
     << <<"To", <<"a", " ", "j", "o", "@", "x">> >>, <<"Date", <<"2023", 3, 0, "">> >> >>,
     << <<"Subject", Txt_ab>>, <<"Date", <<"2023", 2, 23, "-0000">> >> >>}

Unit(kind, name, matchers, rules, age) ==
    [kind |-> kind, name |-> name, matchers |-> matchers, rules |-> rules, age |-> age,
     action |-> NoAction]

Exists(name) == Unit("header-exists", name, <<>>, <<>>, 0)
Matcher(name, op, pattern) == [name |-> name, op |-> op, pattern |-> pattern]

\* header matchers on X-Spam, a header no message carries, and on To
UnitMatchers ==
    {Matcher("X-Spam", op, pattern) :
        op \in {"substring", "regex", "value"}, pattern \in {<<>>, <<"a">>}}
    \cup {Matcher("X-Spam", "regex", <<"^", "$">>), Matcher("X-Spam", "regex", <<".">>),
          Matcher("To", "regex", <<"o", "@">>), Matcher("to", "value", <<"J", "o">>)}

UnitRules ==
    {Unit(kind, "", <<>>, <<>>, 0) : kind \in {"or", "and", "headers"}}
    \cup {Unit(kind, "", <<>>, rs, 0) :
             kind \in {"or", "and"},
             rs \in {<<Exists("to"), Exists("list-id"), Exists("date")>>,
                     <<Exists("date"), Exists("to"), Exists("cc")>>,
                     <<Exists("x-spam"), Unit("and", "", <<>>, <<>>, 0), Exists("subject")>>}}
    \cup {Unit("headers", "", <<m>>, <<>>, 0) : m \in UnitMatchers}
    \cup {Unit("recipient", "", <<Matcher("", op, pattern)>>, <<>>, 0) :
             op \in {"substring", "regex"}, pattern \in {<<"J", "O">>, <<"o", "@">>}}
    \cup {Unit("time-limit", "", <<>>, <<>>, age) : age \in 0..2}

Lists == <<"lists.">>

UnitActions ==
    {[name |-> n, dest |-> NoName, base |-> NoName] :
        n \in {"trash", "delete", "flag", "unflag", "mark_read", "mark_unread"}}
    \cup {[name |-> n, dest |-> d, base |-> NoName] :
             n \in {"move", "trash"}, d \in {Archive, <<"Archive.", DateYearPart>>}}
    \cup {[name |-> n, dest |-> NoName, base |-> Lists] :
             n \in {"sort", "sort-mailing-list", "sort-by-year"}}
    \cup {[name |-> "sort", dest |-> NoName, base |-> Lists, header |-> "cc"],
          [name |-> "sort", dest |-> NoName, base |-> Lists,
           regex |-> <<"(", ".", ")", "(", ".", ")", "@">>, group |-> 1],
          [name |-> "sort", dest |-> NoName, base |-> Lists,
           regex |-> <<"(", ".", ")", "(", ".", ")", "@">>],
          [name |-> "sort", dest |-> NoName, base |-> Lists,
           regex |-> <<"(", ".", ")", "@">>, group |-> 1],
          [name |-> "sort", dest |-> NoName, base |-> Lists, regex |-> <<"j", "o">>]}

\* the rule descriptions paired with the action descriptions: every rule
\* with the flag action, every action with the first rule
Units ==
    {[r EXCEPT !.action = [name |-> "flag", dest |-> NoName, base |-> NoName]] :
        r \in UnitRules}
    \cup {[Exists("subject") EXCEPT !.action = a] : a \in UnitActions}

UnitInit ==
    /\ backend \in {"imap", "maildir"}
    /\ cfg \in {[mailboxes |-> <<[name |-> INBOX, rules |-> <<u>>]>>,
                 trash_mailbox |-> t] : u \in Units, t \in {TrashBox, NoName}}
    /\ dry_run = FALSE
    /\ debug = FALSE
    /\ progress_tracker = "progress"
    /\ init_boxes \in {(INBOX :> <<[id |-> 1, msg |-> m, flags |-> {}]>>) :
                          m \in UnitMessages}
    /\ boxes = init_boxes
    /\ uidnext = (INBOX :> 2)
    /\ selected = IF backend = "imap" THEN INBOX ELSE NoName
    /\ mbox_names = [loaded |-> FALSE, names |-> {}]
    /\ pc = "unit"
    /\ mb = 1
    /\ snapshot = init_boxes[INBOX]
    /\ pos = 1
    /\ cur = init_boxes[INBOX][1]
    /\ rule_idx = 1
    /\ action = NoActionObj
    /\ num_messages = 1
    /\ num_processed = 0
    /\ num_errors = 0
    /\ stats = NoStats
    /\ interrupted = FALSE
    /\ faults = MaxFaults
    /\ log = <<>>
    /\ it = NoIterator
    /\ locks = {}
    /\ call = Idle
    /\ session = "open"

\* the rule is built from its description and rule.check(message) is
\* called: the value it returns and, for an or, an and and a recipient, the
\* sub-rules whose check was called.  The constructor of a recipient rule
\* rewrites the description, and the rule may be built from it and checked
\* a second time.
Unit_check ==
    /\ pc \in {"unit", "checked"}
    /\ LET rule == mailbox_rules[rule_idx]
           traced == CASE rule.kind = "or" -> Or_check(rule, cur.msg)
                       [] rule.kind = "and" -> And_check(rule, cur.msg)
                       [] rule.kind = "recipient" -> Recipient_check(rule, cur.msg)
                       [] OTHER -> [val |-> Rule_check(rule, cur.msg), calls |-> <<>>]
           value == IF rule.kind = "time-limit" THEN TimeLimit_check(rule, cur.msg)
                    ELSE IF traced.val THEN "True" ELSE "False"
       IN /\ log' = Append(log, Ev("rule_check", cur.id, rule_idx, Truthy(value), NoName)
                                @@ [value |-> value, calls |-> traced.calls])
          /\ cfg' = IF rule.kind = "recipient"
                    THEN [cfg EXCEPT !.mailboxes[mb].rules[rule_idx] = Recipient_init(rule)]
                    ELSE cfg
    /\ pc' = IF pc = "unit" THEN "checked" ELSE "rechecked"
    /\ UNCHANGED <<backend, dry_run, debug, progress_tracker, init_boxes, harness, store,
                   loop, counters, interrupted, faults>>

\* actions.factory(rule.get_action(), cfg), and the choice of the method
\* that is called on the action first
Unit_factory ==
    /\ pc \in {"checked", "rechecked"}
    /\ LET built == Action_factory(Rule_get_action(mailbox_rules[rule_idx]), cfg)
       IN IF ~built.ok
          THEN /\ pc' = "raised"
               /\ log' = Append(log, Ev("raise", cur.id, rule_idx, FALSE, NoName))
               /\ UNCHANGED action
          ELSE /\ action' = built
               /\ log' = Append(log, Ev("factory", cur.id, rule_idx, TRUE, NoName))
               /\ \E method \in {"unit_report", "invoke"} : pc' = method
    /\ UNCHANGED <<inputs, harness, store, mb, snapshot, pos, cur, rule_idx, counters,
                   interrupted, faults>>

\* action.report(conn, mailbox_name, msg_id, message): what it logs and what
\* it returns; invoke() is called next
Unit_report ==
    /\ pc = "unit_report"
    /\ LET rep == Action_report(action, mailbox_name, cur.id, cur.msg)
       IN /\ log' = Append(log, Ev("report", cur.id, rule_idx, rep.ok, NoName)
                                @@ [logged |-> rep.logged, returned |-> rep.returned])
          /\ pc' = IF rep.ok THEN "invoke" ELSE "raised"
    /\ UNCHANGED <<inputs, harness, store, loop, counters, interrupted, faults>>

UnitNext ==
    \/ Unit_check
    \/ Unit_factory
    \/ Unit_report
    \/ Invoke
    \/ MoveDelete

UnitSpec == UnitInit /\ [][UnitNext]_vars

UnitRule == cfg.mailboxes[1].rules[1]
UnitMsg == init_boxes[INBOX][1].msg

UnitAction == Rule_get_action(UnitRule)
IsRuleCheck(e) == e.ev = "rule_check"

\* C24 as stated: report() issues no client operation, leaves the backend
\* as it was, and returns the description of the action that would be taken.
C24_ReportSideEffectFree ==
    \A i \in LogIdx :
       log[i].ev = "report" =>
          /\ \A j \in 1..i : log[j].ev \notin ClientOps \cup {"list", "expunge"}
          /\ i = Len(log) => (boxes = init_boxes /\ ~mbox_names.loaded)
          /\ log[i].ok => log[i].returned = <<log[i].logged>>

\* an or or an and without sub-rules, a headers rule without matchers
EmptyComposite(rule) ==
    \/ rule.kind \in {"or", "and"} /\ rule.rules = <<>>
    \/ rule.kind = "headers" /\ rule.matchers = <<>>

\* C25: check() of an or without sub-rules, of an and without sub-rules and
\* of a headers rule without matchers returns False for every message, and
\* no sub-rule is called.
C25_EmptyCompositeFalse ==
    \A i \in LogIdx :
       (IsRuleCheck(log[i]) /\ EmptyComposite(UnitRule)) =>
          /\ ~log[i].ok
          /\ log[i].value = "False"
          /\ log[i].calls = <<>>

\* an and without sub-rules has been checked against a message with headers
C25_Witness ==
    /\ Len(log) > 0
    /\ IsRuleCheck(Last)
    /\ UnitRule.kind = "and"
    /\ UnitRule.rules = <<>>
    /\ HasHeader(UnitMsg, "subject")

\* the sub-rules of the unit's rule that decide it: for an or the ones that
\* match the message, for an and the ones that do not
Deciders ==
    {k \in 1..Len(UnitRule.rules) :
        Rule_check(UnitRule.rules[k], UnitMsg) = (UnitRule.kind = "or")}

\* C26: an or and an and with sub-rules call the checks of their sub-rules
\* from the first one on, in order, up to and including the first that
\* decides (a match for or, a failure for and) and no later one; or is true
\* exactly when some sub-rule matches, and exactly when every one does.
C26_ShortCircuit ==
    \A i \in LogIdx :
       (IsRuleCheck(log[i]) /\ UnitRule.kind \in {"or", "and"} /\ UnitRule.rules # <<>>) =>
          LET stop == IF Deciders = {} THEN Len(UnitRule.rules)
                      ELSE CHOOSE k \in Deciders : \A d \in Deciders : k <= d
          IN /\ log[i].calls = [k \in 1..stop |-> k]
             /\ log[i].ok = IF UnitRule.kind = "or" THEN Deciders # {} ELSE Deciders = {}

\* an or of three sub-rules was decided by its second one: the first did not
\* match, the third was not called
C26_Witness ==
    /\ Len(log) > 0
    /\ IsRuleCheck(Last)
    /\ UnitRule.kind = "or"
    /\ Len(UnitRule.rules) = 3
    /\ Last.calls = <<1, 2>>
    /\ Last.ok

\* C27 as stated: a substring, regex or exact-value matcher on a header the
\* message does not carry returns False whatever its pattern.
C27_MissingHeaderFalse ==
    \A i \in LogIdx :
       (/\ IsRuleCheck(log[i])
        /\ UnitRule.kind = "headers"
        /\ Len(UnitRule.matchers) = 1
        /\ ~HasHeader(UnitMsg, UnitRule.matchers[1].name)) =>
          ~log[i].ok

\* C28 as stated: for every age, TimeLimit.check is true exactly when the
\* date parses and lies at least that many days before the current time, a
\* date without a zone being taken as UTC.
C28_TimeLimit ==
    \A i \in LogIdx :
       (IsRuleCheck(log[i]) /\ UnitRule.kind = "time-limit") =>
          LET d == get_header_value(UnitMsg, "date")
          IN log[i].ok = (DateParses(d) /\ DateInstant(d) + 24 * UnitRule.age <= Now)

\* C29 as stated: sort and sort-mailing-list move the message to the base
\* followed by the capture of the first match of the regex in the header
\* (the only group, or the one at the configured index), and raise without
\* a move when the regex does not match.
C29_SortDestination ==
    \A i \in LogIdx :
       (log[i].ev = "invoke" /\ UnitAction.name \in {"sort", "sort-mailing-list"}) =>
          LET regex == Sort_regex(UnitAction)
              value == get_header_value(UnitMsg, Sort_header(UnitAction))
              at == re_search(regex, value)
              group == IF re_groups(regex) = 1 THEN 1 ELSE Sort_group(UnitAction) + 1
          IN IF at = -1
             THEN /\ log[i + 1].ev = "error"
                  /\ \A k \in LogIdx : log[k].ev # "copy"
             ELSE \E k \in LogIdx :
                     /\ k > i
                     /\ log[k].ev = "copy"
                     /\ log[k].arg = UnitAction.base \o re_group(regex, value, at, group)

\* the bucket of the unit's message: its year, or the literal for a date
\* header that does not parse, is empty or is missing
YearBucket ==
    LET d == get_header_value(UnitMsg, "date")
    IN UnitAction.base \o <<IF Len(d) \in {1, 4} /\ d[1] \in Years THEN d[1]
                            ELSE "unparsable-date">>

\* C30: for sort-by-year report() and invoke() never raise because of the
\* date: the destination is the base followed by the year of a date that
\* parses and by "unparsable-date" otherwise, the copy of the move is issued
\* to it, and the message arrives there.
C30_SortByYearForgiving ==
    \A i \in LogIdx :
       UnitAction.name = "sort-by-year" =>
          /\ log[i].ev = "report" => (log[i].ok /\ log[i].logged.dest = YearBucket)
          /\ log[i].ev = "invoke" =>
                /\ \E k \in LogIdx :
                      k > i /\ log[k].ev = "copy" /\ log[k].ok /\ log[k].arg = YearBucket
                /\ YearBucket \in DOMAIN boxes
                /\ \E n \in 1..Len(boxes[YearBucket]) : boxes[YearBucket][n].msg = UnitMsg
          /\ log[i].ev # "error"

\* a message without a date header has been moved to the bucket of the
\* dates that do not parse
C30_Witness ==
    /\ Len(log) > 0
    /\ Last.ev = "processed"
    /\ UnitAction.name = "sort-by-year"
    /\ ~HasHeader(UnitMsg, "date")
    /\ YearBucket = UnitAction.base \o <<"unparsable-date">>
    /\ \E n \in 1..Len(boxes[YearBucket]) : boxes[YearBucket][n].msg = UnitMsg

\* C31 as stated: a move whose dest-mailbox is a constant string resolves
\* its destination for every message, whatever its headers, and the
\* destination is that string.
C31_StaticMovePermitted ==
    \A i \in LogIdx :
       (/\ UnitAction.name = "move"
        /\ \A k \in 1..Len(UnitAction.dest) : UnitAction.dest[k] # DateYearPart) =>
          /\ log[i].ev = "report" => (log[i].ok /\ log[i].logged.dest = UnitAction.dest)
          /\ log[i].ev = "invoke" =>
                \E k \in LogIdx : k > i /\ log[k].ev = "copy" /\ log[k].arg = UnitAction.dest
          /\ log[i].ev # "error"

\* the destination a trash action gets from its description and the
\* configuration: the dest-mailbox of the action, else the global
\* trash-mailbox, else none
TrashDest == IF UnitAction.dest # NoName THEN UnitAction.dest ELSE cfg.trash_mailbox

\* C33: a trash action is constructed exactly when its description gives a
\* dest-mailbox or the configuration a trash-mailbox; the constructed action
\* holds the dest-mailbox when given and the trash-mailbox otherwise, and
\* report() and invoke() use that destination for every message, unrendered.
C33_TrashDestination ==
    \A i \in LogIdx :
       UnitAction.name = "trash" =>
          /\ log[i].ev = "raise" => TrashDest = NoName
          /\ log[i].ev = "factory" =>
                /\ TrashDest # NoName
                /\ i = Len(log) => action.dest_mailbox = TrashDest
          /\ log[i].ev = "report" => (log[i].ok /\ log[i].logged.dest = TrashDest)
          /\ log[i].ev = "invoke" =>
                \E k \in LogIdx :
                   k > i /\ log[k].ev = "copy" /\ log[k].ok /\ log[k].arg = TrashDest
          /\ log[i].ev # "error"

\* a trash action with a dest-mailbox of its own, under a configuration
\* with a global trash-mailbox, has moved a message without a date header
C33_Witness ==
    /\ Len(log) > 0
    /\ Last.ev = "processed"
    /\ UnitAction.name = "trash"
    /\ UnitAction.dest = Archive
    /\ cfg.trash_mailbox = TrashBox
    /\ ~HasHeader(UnitMsg, "date")
    /\ Archive \in DOMAIN boxes
    /\ \E n \in 1..Len(boxes[Archive]) : boxes[Archive][n].msg = UnitMsg

\* the matcher of the recipient rule applied to one header
RecipientMatches(header) ==
    Matcher_check([UnitRule.matchers[1] EXCEPT !.name = header], UnitMsg)

\* C34: a recipient rule built from matcher P is true exactly when P matches
\* the value of the to header or of the cc header, as the or rule over the
\* two headers rules is; its constructor leaves those two headers rules in
\* the description, and the rule built from the rewritten description
\* checks the same sub-rules with the same result.
C34_RecipientIsOrOfToCc ==
    \A i \in LogIdx :
       (UnitRule.kind = "recipient" /\ IsRuleCheck(log[i])) =>
          /\ log[i].ok = (RecipientMatches("to") \/ RecipientMatches("cc"))
          /\ log[i].ok = Rule_check([UnitRule EXCEPT !.kind = "or"], UnitMsg)
          /\ Len(UnitRule.rules) = 2
          /\ \A k \in 1..2 :
                /\ UnitRule.rules[k].kind = "headers"
                /\ UnitRule.rules[k].matchers =
                      <<[UnitRule.matchers[1] EXCEPT !.name = <<"to", "cc">>[k]]>>
          /\ \A j \in LogIdx :
                IsRuleCheck(log[j]) => (log[j].ok = log[i].ok /\ log[j].calls = log[i].calls)

\* a recipient rule was built and checked twice on a message that names
\* the recipient in its cc header only, and matched both times
C34_Witness ==
    /\ UnitRule.kind = "recipient"
    /\ pc = "rechecked"
    /\ Len(log) = 2
    /\ log[1].ok
    /\ log[2].ok
    /\ log[2].calls = <<1, 2>>
    /\ ~RecipientMatches("to")
    /\ RecipientMatches("cc")

\* the client operations the action named n issues
OpsOf(n) ==
    CASE n \in MoveFamily -> {"list", "create", "copy", "delete"}
      [] n = "delete" -> {"delete"}
      [] n \in {"flag", "unflag"} -> {"set_flagged"}
      [] OTHER -> {"set_read"}

\* C32: the action that is constructed, reported and invoked for a message
\* is the one the description of the matching top-level rule carries at its
\* top level, and it is obtained right after that rule's check returned
\* true; the actions of the sub-rules of an or or an and are never
\* constructed or invoked, and no client operation of theirs is issued.
C32_TopLevelActionOnly ==
    /\ pc \in {"report", "invoke", "delete"} => action.data = mailbox_rules[rule_idx].action
    /\ \A i \in LogIdx :
          /\ log[i].ev \in {"factory", "raise"} /\ log[i].rule > 0 =>
                /\ i > 1
                /\ log[i - 1].ev = "check"
                /\ log[i - 1].ok
                /\ log[i - 1].rule = log[i].rule
                /\ SameMsg(log[i - 1], log[i])
                /\ i = Len(log) => Rule_check(RuleOf(log[i]), cur.msg)
          /\ log[i].ev = "invoke" =>
                /\ log[i].arg = <<RuleOf(log[i]).action.name>>
                /\ \E j \in 1..(i - 1) :
                      /\ log[j].ev = "factory"
                      /\ log[j].rule = log[i].rule
                      /\ SameMsg(log[j], log[i])
          /\ log[i].ev \in ClientOps \cup {"list"} =>
                log[i].ev \in OpsOf(RuleOf(log[i]).action.name)

\* a message matched an or rule through an and whose sub-rules and which
\* itself carry actions of their own, and was marked read as the or rule
\* says
C32_Witness ==
    /\ Len(log) > 2
    /\ Last.ev = "processed"
    /\ RuleOf(Last) = RuleOrNested
    /\ log[Len(log) - 1].ev = "set_read"
    /\ log[Len(log) - 2].ev = "invoke"
    /\ log[Len(log) - 2].arg = <<"mark_read">>
    /\ Rule_check(RuleAndNested, cur.msg)
    /\ Rule_check(RuleSpamTrash, cur.msg)

\* ------------------------------------------------------------------------
\* Password providers (secrets.py): configure_providers is a generator of
\* three stages, consumed either as a whole (list(...)) or by get_password,
\* which stops at the first provider whose password is truthy
\* ------------------------------------------------------------------------
NoKeys == [k \in {} |-> k]
Passwords == {"", "secret"}

\* the server sections: each of password, use_keyring and use_env_variable
\* is absent, falsy or truthy, and hostname and username may be missing
ServerConfigs ==
    {pw @@ kr @@ env @@ host :
        pw \in {NoKeys, [password |-> ""], [password |-> "secret"]},
        kr \in {NoKeys, [use_keyring |-> FALSE], [use_keyring |-> TRUE]},
        env \in {NoKeys, [use_env_variable |-> ""], [use_env_variable |-> "IMAP_PW"]},
        host \in {NoKeys, [hostname |-> "host", username |-> "user"]}}

server == cfg.server

\* cfg['server'][key], with the default the except KeyError branch sets
ServerGet(key, default) == IF key \in DOMAIN server THEN server[key] ELSE default

SecretsInit ==
    /\ backend = "imap"
    /\ cfg \in {[server |-> sv] : sv \in ServerConfigs}
    /\ dry_run = FALSE
    /\ debug = FALSE
    /\ progress_tracker = "null"
    /\ init_boxes = (INBOX :> <<>>)
    /\ boxes = init_boxes
    /\ uidnext = (INBOX :> 1)
    /\ selected = NoName
    /\ mbox_names = [loaded |-> FALSE, names |-> {}]
    /\ pc = "fixed"
    /\ mb = 1
    /\ snapshot = <<>>
    /\ pos = 1
    /\ cur = NoMsg
    /\ rule_idx = 1
    /\ action = NoActionObj
    /\ num_messages = 0
    /\ num_processed = 0
    /\ num_errors = 0
    /\ stats = NoStats
    /\ interrupted = FALSE
    /\ faults = 0
    /\ log = <<>>
    /\ it = NoIterator
    /\ locks = {}
    /\ call \in {[Idle EXCEPT !.op = consumer] : consumer \in {"list", "get_password"}}
    /\ session = "closed"

\* the consumer receives a provider: list() keeps it and asks for the next
\* one, get_password calls provider.get_password() and returns the password
\* when it is truthy
Yielded(kind, passwords, next) ==
    LET provided == Ev("provider", 0, 0, TRUE, <<kind>>)
    IN IF call.op = "list"
       THEN /\ log' = Append(log, provided)
            /\ pc' = next
       ELSE \E password \in passwords :
               /\ log' = log \o <<provided, Ev("password", 0, 0, password # "", <<kind>>)>>
               /\ pc' = IF password # "" THEN "returned" ELSE next

\* a KeyError leaves the generator
KeyErrorRaised ==
    /\ log' = Append(log, Ev("raise", 0, 0, FALSE, NoName))
    /\ pc' = "raised"

SecretsFrame ==
    UNCHANGED <<inputs, store, loop, counters, interrupted, faults, harness>>

\* first stage: the password of the configuration, when the key is there
Providers_fixed ==
    /\ pc = "fixed"
    /\ SecretsFrame
    /\ IF "password" \in DOMAIN server
       THEN Yielded("FixedPasswordSecret", {server.password}, "keyring")
       ELSE pc' = "keyring" /\ UNCHANGED log

\* second stage: the keyring, when use_keyring is truthy
Providers_keyring ==
    /\ pc = "keyring"
    /\ SecretsFrame
    /\ IF ServerGet("use_keyring", FALSE)
       THEN IF "hostname" \notin DOMAIN server THEN KeyErrorRaised
            ELSE Yielded("KeyringPasswordSecret", Passwords, "env")
       ELSE pc' = "env" /\ UNCHANGED log

\* third stage: the environment variable when use_env_variable is truthy,
\* the prompt otherwise
Providers_env_or_ask ==
    /\ pc = "env"
    /\ SecretsFrame
    /\ IF ServerGet("use_env_variable", "") # ""
       THEN \/ Yielded("EnvPasswordSecret", Passwords, "exhausted")
            \/ call.op = "get_password" /\ KeyErrorRaised
       ELSE IF "hostname" \notin DOMAIN server THEN KeyErrorRaised
            ELSE Yielded("AskPassword", Passwords, "exhausted")

SecretsNext ==
    \/ Providers_fixed
    \/ Providers_keyring
    \/ Providers_env_or_ask

SecretsSpec == SecretsInit /\ [][SecretsNext]_vars

Provided(kind) == \E i \in LogIdx : log[i].ev = "provider" /\ log[i].arg = <<kind>>

\* C35 as stated: with use_keyring enabled the providers configure_providers
\* produces hold a keyring provider and no AskPassword provider.
C35_KeyringExcludesAsk ==
    (/\ call.op = "list"
     /\ pc = "exhausted"
     /\ ServerGet("use_keyring", FALSE)) =>
        /\ Provided("KeyringPasswordSecret")
        /\ ~Provided("AskPassword")

\* the positions of process_rules between the enumeration of a mailbox and
\* the end of its expunge
InPass == {"message", "rules", "report", "invoke", "delete", "expunge"}

\* the entries a step appended to the log
Logged == {log'[k] : k \in (Len(log) + 1)..Len(log')}

\* C36: on the remote backend the folder selected while a mailbox is
\* processed, from its enumeration to its expunge, is that mailbox: the
\* selection changes only when the iterator of a mailbox is obtained, and
\* then to that mailbox; and a step that invokes an action or expunges
\* changes no mailbox but the selected one and the destination of a copy it
\* issued.
C36_SelectedIsCurrent ==
    [][backend = "imap" =>
          /\ pc' \in InPass => selected' = mailbox_name'
          /\ selected' # selected =>
                /\ pc = "mailbox"
                /\ \E e \in Logged : e.ev = "iterator" /\ e.arg = selected'
          /\ \A n \in DOMAIN boxes :
                boxes'[n] # boxes[n] =>
                   \/ n = selected /\ n = mailbox_name /\ pc \in {"invoke", "delete", "expunge"}
                   \/ \E e \in Logged : e.ev = "copy" /\ e.ok /\ e.arg = n]_vars

\* on the remote backend a message of the first mailbox was moved to the
\* second one, and in the pass over the second one, which is selected, a
\* client operation was issued and the pass has reached its expunge
C36_Witness ==
    /\ backend = "imap"
    /\ mb = 2
    /\ pc = "expunge"
    /\ selected = mailbox_name
    /\ \E i, j \in LogIdx :
          /\ log[i].pass = 1
          /\ log[i].ev = "copy"
          /\ log[i].ok
          /\ log[i].arg = mailbox_name
          /\ log[j].pass = 2
          /\ log[j].ev \in {"set_flagged", "delete"}
          /\ log[j].ok

\* the number of log entries of one kind
CountOf(ev) == Cardinality({i \in LogIdx : log[i].ev = ev})

\* the outcomes logged for the message visited at entry i of the log
OutcomesOf(i) ==
    {k \in LogIdx : k > i /\ log[k].ev \in Outcomes /\ SameMsg(log[k], log[i])}

\* the counters agree with what happened: a message is counted as seen
\* when it is visited, as processed or as an error when that outcome is
\* reached, and every visited message has at most one outcome
CountersConsistent ==
    /\ num_messages = CountOf("visit")
    /\ num_processed = CountOf("processed")
    /\ num_errors = CountOf("error")
    /\ num_processed + num_errors <= num_messages
    /\ \A i \in LogIdx : log[i].ev = "visit" => Cardinality(OutcomesOf(i)) <= 1
    /\ \A i \in LogIdx :
          log[i].ev \in Outcomes => \E j \in 1..(i - 1) : log[j].ev = "visit" /\ SameMsg(log[j], log[i])
    /\ pc = "done" =>
          /\ \A i \in LogIdx : log[i].ev = "visit" => Cardinality(OutcomesOf(i)) = 1
          /\ num_messages = num_processed + num_errors + CountOf("unmatched")

\* C37: every message that passes the cancellation check is counted once
\* as seen and ends as processed, as an error or as unmatched, never as two
\* of them; processed + errors never exceeds seen; when the run has
\* completed seen = processed + errors + unmatched; and the counters run
\* over all the mailboxes and never decrease.
C37_CountersConsistent ==
    [][/\ CountersConsistent'
       /\ num_messages' >= num_messages
       /\ num_processed' >= num_processed
       /\ num_errors' >= num_errors
       /\ num_messages' - num_messages + num_processed' - num_processed
             + num_errors' - num_errors <= 1]_vars

\* a completed run over two mailboxes in which messages were processed, one
\* failed and one matched no rule
C37_Witness ==
    /\ pc = "done"
    /\ mb = 3
    /\ num_processed >= 1
    /\ num_errors >= 1
    /\ CountOf("unmatched") >= 1
    /\ num_messages = num_processed + num_errors + CountOf("unmatched")
    /\ \E i, j \in LogIdx :
          log[i].ev = "visit" /\ log[j].ev = "visit" /\ log[i].pass = 1 /\ log[j].pass = 2

\* the visits of pass p, as indexes of the log
VisitIdx(p) == {i \in LogIdx : log[i].ev = "visit" /\ log[i].pass = p}

\* the visits of the current pass are the first entries of the snapshot,
\* one visit each and in its order; a pass that reached its expunge without
\* a cancellation has visited all of them; an earlier pass visited no more
\* messages than its iterator reported
SnapshotVisited ==
    /\ pc \in InPass =>
          /\ \A i \in VisitIdx(mb) :
                LET k == Cardinality({j \in VisitIdx(mb) : j <= i})
                IN k <= Len(snapshot) /\ log[i].id = snapshot[k].id
          /\ (pc = "expunge" /\ ~InterruptSeen) => VisitsIn(mb) = Len(snapshot)
          /\ IterLen(mb) = Len(snapshot)
    /\ \A p \in 1..(mb - 1) :
          (\E i \in LogIdx : log[i].ev = "iterator" /\ log[i].pass = p) =>
             VisitsIn(p) <= IterLen(p)

\* C38: the messages a pass visits are those the mailbox held when it was
\* enumerated: the snapshot is taken when the iterator is obtained and does
\* not change during the pass, its messages are visited once each and in
\* order, all of them unless the pass is cancelled or aborted, and a message
\* copied into the mailbox during the pass is not visited in it.
C38_SnapshotIteration ==
    [][/\ SnapshotVisited'
       /\ (pc = "mailbox" /\ pc' = "message") =>
             Ids(snapshot') = Ids(boxes'[mailbox_name])
       /\ (pc \in InPass /\ pc' \in InPass) => snapshot' = snapshot]_vars

\* the pass over a mailbox moved a message into that same mailbox: the copy
\* is in the mailbox, it is not in the snapshot, every message of the
\* snapshot was visited and the pass is at its expunge
C38_Witness ==
    /\ pc = "expunge"
    /\ ~InterruptSeen
    /\ Len(snapshot) >= 1
    /\ VisitsIn(mb) = Len(snapshot)
    /\ \E i \in LogIdx :
          log[i].pass = mb /\ log[i].ev = "copy" /\ log[i].ok /\ log[i].arg = mailbox_name
    /\ \E k \in DOMAIN boxes[mailbox_name] :
          ~HasId(snapshot, boxes[mailbox_name][k].id)

\* the entries of the log that belong to a pass
InRun(e) == e.ev # "summary"

\* the copies that arrived in the p-th configured mailbox before its pass
ArrivedBefore(p) ==
    {i \in LogIdx : /\ InRun(log[i])
                    /\ log[i].pass < p
                    /\ log[i].ev = "copy"
                    /\ log[i].ok
                    /\ log[i].arg = PassName(p)}

C40_AdvanceOncePerMessage ==
    progress_tracker = "progress" =>
       /\ stats.seen = CountOf("processed") + CountOf("error") + CountOf("unmatched")
       /\ stats.seen <= stats.total_messages
       /\ pc = "done" => stats.seen = num_messages
====
